---- MODULE Spec2Model ----
(***************************************************************************)
(* Advent-of-Code-2024: the shortest-path searches of Day16, Day18 and     *)
(* Day20 and the towel recursions of Day19.                                *)
(*                                                                         *)
(* A position is a pair <<a, b>> of integers, a Python dict is a TLA+      *)
(* function whose DOMAIN is the set of its keys, a Python set is a set and *)
(* a Python list or tuple is a sequence.  Every search loop is modelled    *)
(* one iteration per step; min(queue, key=...) may return any member of    *)
(* the queue of minimum distance (set iteration order is not specified).   *)
(***************************************************************************)
EXTENDS Integers, Sequences, FiniteSets, TLC

VARIABLES
    prog,        \* the function being run
    pc,          \* "loop" while the function runs, "done" after it returned or raised
    ret,         \* what the function returned or raised: [tag, val]
    bytes_pos,   \* Day18: list of byte coordinates
    num_fallen,  \* Day18: number of fallen bytes
    bounds,      \* Day18: dimensions of the space, and exit cell
    maze,        \* Day16, Day20: the maze, a list of rows
    start,       \* Day16: <<pos, facing>> of get_input; Day20: pos of get_input
    end,         \* Day16, Day20: end of get_input
    paths,       \* Day16_Part2: paths
    queue,       \* the search loops' queue
    found,       \* the search loops' found
    dist,        \* the search loops' dist / min_dist
    towels,      \* Day19: the set of towels of get_input
    max_t_len,   \* Day19: max_t_len of get_input
    towels_t,    \* Day19_Part2: tuple(towels)
    not_composite, \* Day19_Part2: not_composite
    cache,       \* Day19: the lru_cache of num_ways, a dict from argument tuples to results
    design,      \* Day19: the design of the last call
    calls,       \* Day19: the calls of num_ways made so far, as [design, val]
    maze_walls,  \* Day20_Part1, Day20_Part2: walls of get_input
    dist_from_start, \* Day20_Part1, Day20_Part2: dist_from_start
    dist_to_end, \* Day20_Part1, Day20_Part2: dist_to_end
    L,           \* Day18_Part2: L of the binary search
    R,           \* Day18_Part2: R of the binary search
    files,       \* Day9_Part1: files of get_input, a str of digits
    pos9,        \* Day9_Part1: pos
    checksum,    \* Day9_Part1: checksum
    end_n,       \* Day9_Part1: end_n
    end_i,       \* Day9_Part1: end_i
    n9,          \* Day9_Part1: n of `for n, f in enumerate(files)`
    i9,          \* Day9_Part1: i of `for i in range(int(f))`
    lines,       \* Day6_Part2: lines of get_input, the map
    pos6,        \* Day6_Part2: pos
    facing6,     \* Day6_Part2: facing
    all_pos,     \* Day6_Part2: all_pos
    extra_obs_pos, \* Day6_Part2: extra_obs_pos
    extra_obs,   \* Day6_Part2: extra_obs, which is lines inside does_loop
    pos_dl,      \* does_loop: pos
    facing_dl,   \* does_loop: facing
    all_pos_dl,  \* does_loop: all_pos
    robot,       \* Day15_Part1, Day15_Part2: robot
    boxes,       \* Day15_Part1, Day15_Part2: boxes
    walls15,     \* Day15_Part1, Day15_Part2: walls
    moves,       \* Day15_Part1, Day15_Part2: the moves the loop has not yet come to
    left,        \* Day15_Part2: left
    right,       \* Day15_Part2: right
    next_pos,    \* Day15_Part1, Day15_Part2: next_pos
    last_pos,    \* Day15_Part1: last_pos
    hit_wall,    \* Day15_Part2: hit_wall
    moving_boxes, \* Day15_Part2: moving_boxes
    nums,        \* Day7: nums, the numbers of an equation
    ops,         \* Day7: ops, the operators put between them
    answer       \* Day7: answer, the test value

searchVars == <<bytes_pos, num_fallen, bounds, maze, start, end, paths, queue, found, dist>>

towelVars == <<towels, max_t_len, towels_t, not_composite, cache, design, calls>>

raceVars == <<maze_walls, dist_from_start, dist_to_end>>

bisectVars == <<L, R>>

\* The variables of the days other than the searches and the towels.
diskVars == <<files, pos9, checksum, end_n, end_i, n9, i9>>

guardVars == <<lines, pos6, facing6, all_pos, extra_obs_pos>>

doesLoopVars == <<extra_obs, pos_dl, facing_dl, all_pos_dl>>

warehouseVars ==
    <<robot, boxes, walls15, moves, left, right, next_pos, last_pos, hit_wall, moving_boxes>>

equationVars == <<nums, ops, answer>>

dayVars ==
    <<raceVars, bisectVars, diskVars, guardVars, doesLoopVars, warehouseVars, equationVars>>

\* The same without those of Day20_Part1 and Day20_Part2, and without those of
\* Day18_Part2.
notRaceVars ==
    <<bisectVars, diskVars, guardVars, doesLoopVars, warehouseVars, equationVars>>

notBisectVars ==
    <<raceVars, diskVars, guardVars, doesLoopVars, warehouseVars, equationVars>>

notDiskVars ==
    <<raceVars, bisectVars, guardVars, doesLoopVars, warehouseVars, equationVars>>

notGuardVars ==
    <<raceVars, bisectVars, diskVars, warehouseVars, equationVars>>

notWarehouseVars ==
    <<raceVars, bisectVars, diskVars, guardVars, doesLoopVars, equationVars>>

vars == <<prog, pc, ret, searchVars, towelVars, dayVars>>

\* Largest coordinate of the Day18 memory space.
MaxCoord == 2
\* Longest Day18 byte list.
MaxBytes == 1
\* Rows and columns of a maze inside its outer wall, and the most walls inside.
MazeRows == 2
MazeCols == 3
MaxWalls == 1

None == "None"

\* The outcome of a call: not yet returned, an integer returned, None returned, or
\* ValueError raised.
Pending == [tag |-> "pending", val |-> 0]
Returned(v) == [tag |-> "int", val |-> v]

\* abs()
Abs(x) == IF x < 0 THEN -x ELSE x
RetNone == [tag |-> "None", val |-> 0]
ValueError == [tag |-> "ValueError", val |-> 0]

(***************************************************************************)
(* Python dictionaries.                                                    *)
(***************************************************************************)
\* d[k] = v
Put(d, k, v) == [x \in (DOMAIN d) \cup {k} |-> IF x = k THEN v ELSE d[x]]

\* {k: v}
Single(k, v) == [x \in {k} |-> v]

\* pos + d
Add(p, d) == <<p[1] + d[1], p[2] + d[2]>>

\* Sequences over S of length at most n.
SeqUpTo(S, n) == UNION {[1..k -> S] : k \in 0..n}

(***************************************************************************)
(* Day18.py                                                                *)
(***************************************************************************)
DIRECTIONS == << <<1, 0>>, <<0, 1>>, <<-1, 0>>, <<0, -1>> >>

start_pos == <<0, 0>>

\* A faulty variant: the slice stops one byte short.
fallen_bytes_short(bp, nf) == {bp[i] : i \in 1..((IF nf < Len(bp) THEN nf ELSE Len(bp)) - 1)}

\* A faulty variant: the other part of the list, bytes_pos[num_fallen:].
fallen_bytes_rest(bp, nf) == {bp[i] : i \in ((IF nf < Len(bp) THEN nf ELSE Len(bp)) + 1)..Len(bp)}

\* set(bytes_pos[:num_fallen])
fallen_bytes(bp, nf) == {bp[i] : i \in 1..(IF nf < Len(bp) THEN nf ELSE Len(bp))}

\* min(queue, key=lambda q: dist[q]): the members of the queue of minimum distance.
\* A faulty variant: any member of the queue, whatever its distance.
MinQueue18_any(q, dm) == q

MinQueue18(q, dm) == {s \in q : \A t \in q : dm[s] <= dm[t]}

\* A faulty variant: the bounds test excludes the last row and column (< for <=).
Relax18_strict(st, fnd, pos, d, fallen, bnd) ==
    LET new_pos == Add(pos, d) IN
    IF ~(0 <= new_pos[1] /\ new_pos[1] < bnd[1] /\ 0 <= new_pos[2] /\ new_pos[2] < bnd[2])
    THEN st
    ELSE IF new_pos \in fallen
    THEN st
    ELSE [queue |-> IF new_pos \notin fnd THEN st.queue \cup {new_pos} ELSE st.queue,
          dist  |-> IF new_pos \in DOMAIN st.dist
                    THEN IF st.dist[pos] + 1 < st.dist[new_pos]
                         THEN Put(st.dist, new_pos, st.dist[pos] + 1)
                         ELSE st.dist
                    ELSE Put(st.dist, new_pos, st.dist[pos] + 1)]

\* A faulty variant: the position is queued without the test `new_pos not in found`.
Relax18_requeue(st, fnd, pos, d, fallen, bnd) ==
    LET new_pos == Add(pos, d) IN
    IF ~(0 <= new_pos[1] /\ new_pos[1] <= bnd[1] /\ 0 <= new_pos[2] /\ new_pos[2] <= bnd[2])
    THEN st
    ELSE IF new_pos \in fallen
    THEN st
    ELSE [queue |-> st.queue \cup {new_pos},
          dist  |-> IF new_pos \in DOMAIN st.dist
                    THEN IF st.dist[pos] + 1 < st.dist[new_pos]
                         THEN Put(st.dist, new_pos, st.dist[pos] + 1)
                         ELSE st.dist
                    ELSE Put(st.dist, new_pos, st.dist[pos] + 1)]

\* A faulty variant: the test `new_pos in fallen_bytes` is left out.
Relax18_nofallen(st, fnd, pos, d, fallen, bnd) ==
    LET new_pos == Add(pos, d) IN
    IF ~(0 <= new_pos[1] /\ new_pos[1] <= bnd[1] /\ 0 <= new_pos[2] /\ new_pos[2] <= bnd[2])
    THEN st
    ELSE [queue |-> IF new_pos \notin fnd THEN st.queue \cup {new_pos} ELSE st.queue,
          dist  |-> IF new_pos \in DOMAIN st.dist
                    THEN IF st.dist[pos] + 1 < st.dist[new_pos]
                         THEN Put(st.dist, new_pos, st.dist[pos] + 1)
                         ELSE st.dist
                    ELSE Put(st.dist, new_pos, st.dist[pos] + 1)]

\* One pass of the body of `for d in DIRECTIONS` on st = [queue, dist].
Relax18(st, fnd, pos, d, fallen, bnd) ==
    LET new_pos == Add(pos, d) IN
    IF ~(0 <= new_pos[1] /\ new_pos[1] <= bnd[1] /\ 0 <= new_pos[2] /\ new_pos[2] <= bnd[2])
    THEN st
    ELSE IF new_pos \in fallen
    THEN st
    ELSE [queue |-> IF new_pos \notin fnd THEN st.queue \cup {new_pos} ELSE st.queue,
          dist  |-> IF new_pos \in DOMAIN st.dist
                    THEN IF st.dist[pos] + 1 < st.dist[new_pos]
                         THEN Put(st.dist, new_pos, st.dist[pos] + 1)
                         ELSE st.dist
                    ELSE Put(st.dist, new_pos, st.dist[pos] + 1)]

RECURSIVE RelaxAll18(_, _, _, _, _, _)
RelaxAll18(st, fnd, pos, i, fallen, bnd) ==
    IF i > Len(DIRECTIONS) THEN st
    ELSE RelaxAll18(Relax18(st, fnd, pos, DIRECTIONS[i], fallen, bnd),
                    fnd, pos, i + 1, fallen, bnd)

\* One iteration of `while queue` with pos the position min() returned.
Iter18(q, fnd, dm, pos, fallen, bnd) ==
    LET st == RelaxAll18([queue |-> q \ {pos}, dist |-> dm], fnd, pos, 1, fallen, bnd)
    IN  [queue |-> st.queue, found |-> fnd \cup {pos}, dist |-> st.dist]

\* The whole `while queue` loop from st = [queue, found, dist], min() returning the
\* member of minimum distance that CHOOSE picks.
RECURSIVE Run18(_, _, _)
Run18(st, fallen, bnd) ==
    IF st.queue = {} THEN st
    ELSE Run18(Iter18(st.queue, st.found, st.dist,
                      CHOOSE pos \in MinQueue18(st.queue, st.dist) : TRUE, fallen, bnd),
               fallen, bnd)

\* The return statement.
Return18(dm, bnd) == IF bnd \in DOMAIN dm THEN Returned(dm[bnd]) ELSE RetNone

Cells18(bnd) == (0..bnd[1]) \X (0..bnd[2])

Init18 ==
    /\ prog = "find_min_dist_to_exit"
    /\ pc = "loop"
    /\ ret = Pending
    /\ bounds \in (0..MaxCoord) \X (0..MaxCoord)
    /\ bytes_pos \in SeqUpTo(Cells18(bounds), MaxBytes)
    /\ num_fallen \in 0..Len(bytes_pos)
    /\ maze = None /\ start = None /\ end = None /\ paths = None
    /\ queue = {start_pos}
    /\ found = {}
    /\ dist = Single(start_pos, 0)

Loop18 ==
    /\ prog = "find_min_dist_to_exit"
    /\ pc = "loop"
    /\ queue # {}
    /\ \E pos \in MinQueue18(queue, dist) :
         \E n \in {Iter18(queue, found, dist, pos, fallen_bytes(bytes_pos, num_fallen), bounds)} :
             /\ queue' = n.queue
             /\ found' = n.found
             /\ dist' = n.dist
    /\ UNCHANGED <<prog, pc, ret, bytes_pos, num_fallen, bounds, maze, start, end, paths>>
    /\ UNCHANGED towelVars
    /\ UNCHANGED dayVars

Exit18 ==
    /\ prog = "find_min_dist_to_exit"
    /\ pc = "loop"
    /\ queue = {}
    /\ pc' = "done"
    /\ ret' = Return18(dist, bounds)
    /\ UNCHANGED <<prog, bytes_pos, num_fallen, bounds, maze, start, end, paths,
                   queue, found, dist>>
    /\ UNCHANGED towelVars
    /\ UNCHANGED dayVars

(***************************************************************************)
(* Day16.py                                                                *)
(***************************************************************************)
\* maze[p[0]][p[1]] (Python rows and columns count from 0).
At(mz, p) == mz[p[1] + 1][p[2] + 1]

TURN_CW == [f \in {<<0, 1>>, <<1, 0>>, <<0, -1>>, <<-1, 0>>} |->
              CASE f = <<0, 1>> -> <<1, 0>>
                [] f = <<1, 0>> -> <<0, -1>>
                [] f = <<0, -1>> -> <<-1, 0>>
                [] f = <<-1, 0>> -> <<0, 1>>]

TURN_ACW == [f \in {<<0, 1>>, <<-1, 0>>, <<0, -1>>, <<1, 0>>} |->
               CASE f = <<0, 1>> -> <<-1, 0>>
                 [] f = <<-1, 0>> -> <<0, -1>>
                 [] f = <<0, -1>> -> <<1, 0>>
                 [] f = <<1, 0>> -> <<0, 1>>]

\* The maze and start of get_input for a maze of MazeRows x MazeCols tiles inside the
\* outer wall, with walls the inner walls and s the tile marked S; the tile marked E
\* has been replaced by '.'.
Inner == (1..MazeRows) \X (1..MazeCols)

get_input16(walls, s) ==
    [maze |-> [r \in 1..(MazeRows + 2) |-> [c \in 1..(MazeCols + 2) |->
                 IF r = 1 \/ r = MazeRows + 2 \/ c = 1 \/ c = MazeCols + 2
                    \/ <<r - 1, c - 1>> \in walls
                 THEN "#"
                 ELSE IF <<r - 1, c - 1>> = s THEN "S" ELSE "."]],
     pos |-> s,
     facing |-> <<0, 1>>]

\* [(1001, TURN_ACW[facing]), (1, facing), (1001, TURN_CW[facing])]
Options16(facing) == << <<1001, TURN_ACW[facing]>>, <<1, facing>>, <<1001, TURN_CW[facing]>> >>

\* A faulty variant: any member of the queue, whatever its distance.
MinQueue16_any(q, dm) == q

MinQueue16(q, dm) == {s \in q : \A t \in q : dm[s] <= dm[t]}

\* Day16_Part1: one pass of the body of `for s, d in [...]` on st = [queue, dist];
\* cur is the state (pos, facing) popped, opt the pair (s, d).
Relax16(st, fnd, cur, opt, mz) ==
    LET s == opt[1]
        d == opt[2]
        new_pos == Add(cur[1], d)
        new == <<new_pos, d>>
    IN  IF At(mz, new_pos) = "."
        THEN [queue |-> IF new \notin fnd THEN st.queue \cup {new} ELSE st.queue,
              dist  |-> IF new \in DOMAIN st.dist
                        THEN IF st.dist[cur] + s < st.dist[new]
                             THEN Put(st.dist, new, st.dist[cur] + s)
                             ELSE st.dist
                        ELSE Put(st.dist, new, st.dist[cur] + s)]
        ELSE st

RECURSIVE RelaxAll16(_, _, _, _, _)
RelaxAll16(st, fnd, cur, i, mz) ==
    IF i > Len(Options16(cur[2])) THEN st
    ELSE RelaxAll16(Relax16(st, fnd, cur, Options16(cur[2])[i], mz), fnd, cur, i + 1, mz)

Iter16(q, fnd, dm, cur, mz) ==
    LET st == RelaxAll16([queue |-> q \ {cur}, dist |-> dm], fnd, cur, 1, mz)
    IN  [queue |-> st.queue, found |-> fnd \cup {cur}, dist |-> st.dist]

RECURSIVE Run16(_, _)
Run16(st, mz) ==
    IF st.queue = {} THEN st
    ELSE Run16(Iter16(st.queue, st.found, st.dist,
                      CHOOSE cur \in MinQueue16(st.queue, st.dist) : TRUE, mz), mz)

\* min(v for k, v in dist.items() if k[0] == end); min() of nothing raises ValueError.
MinOf(S) == CHOOSE v \in S : \A w \in S : v <= w

min_score(dm, e) ==
    LET S == {dm[k] : k \in {x \in DOMAIN dm : x[1] = e}}
    IN  IF S = {} THEN ValueError ELSE Returned(MinOf(S))

\* [p + [new_pos] for p in paths[pos, facing]]
Extend(ps, new_pos) == [i \in 1..Len(ps) |-> Append(ps[i], new_pos)]

\* A faulty variant: the branch for a score equal to the current minimum is missing.
Relax16P2_noequal(st, fnd, cur, opt, mz) ==
    LET s == opt[1]
        d == opt[2]
        new_pos == Add(cur[1], d)
        new == <<new_pos, d>>
    IN  IF At(mz, new_pos) = "."
        THEN [queue |-> IF new \notin fnd THEN st.queue \cup {new} ELSE st.queue,
              dist  |-> IF new \in DOMAIN st.dist
                        THEN IF st.dist[cur] + s < st.dist[new]
                             THEN Put(st.dist, new, st.dist[cur] + s)
                             ELSE st.dist
                        ELSE Put(st.dist, new, st.dist[cur] + s),
              paths |-> IF new \in DOMAIN st.dist
                        THEN IF st.dist[cur] + s < st.dist[new]
                             THEN Put(st.paths, new, Extend(st.paths[cur], new_pos))
                             ELSE st.paths
                        ELSE Put(st.paths, new, Extend(st.paths[cur], new_pos))]
        ELSE st

\* Day16_Part2: one pass of the body of `for s, d in [...]` on st = [queue, dist, paths].
Relax16P2(st, fnd, cur, opt, mz) ==
    LET s == opt[1]
        d == opt[2]
        new_pos == Add(cur[1], d)
        new == <<new_pos, d>>
    IN  IF At(mz, new_pos) = "."
        THEN [queue |-> IF new \notin fnd THEN st.queue \cup {new} ELSE st.queue,
              dist  |-> IF new \in DOMAIN st.dist
                        THEN IF st.dist[cur] + s < st.dist[new]
                             THEN Put(st.dist, new, st.dist[cur] + s)
                             ELSE st.dist
                        ELSE Put(st.dist, new, st.dist[cur] + s),
              paths |-> IF new \in DOMAIN st.dist
                        THEN IF st.dist[cur] + s < st.dist[new]
                             THEN Put(st.paths, new, Extend(st.paths[cur], new_pos))
                             ELSE IF st.dist[cur] + s = st.dist[new]
                                  THEN Put(st.paths, new,
                                           st.paths[new] \o Extend(st.paths[cur], new_pos))
                                  ELSE st.paths
                        ELSE Put(st.paths, new, Extend(st.paths[cur], new_pos))]
        ELSE st

RECURSIVE RelaxAll16P2(_, _, _, _, _)
RelaxAll16P2(st, fnd, cur, i, mz) ==
    IF i > Len(Options16(cur[2])) THEN st
    ELSE RelaxAll16P2(Relax16P2(st, fnd, cur, Options16(cur[2])[i], mz), fnd, cur, i + 1, mz)

Iter16P2(q, fnd, dm, ps, cur, mz) ==
    LET st == RelaxAll16P2([queue |-> q \ {cur}, dist |-> dm, paths |-> ps], fnd, cur, 1, mz)
    IN  [queue |-> st.queue, found |-> fnd \cup {cur}, dist |-> st.dist, paths |-> st.paths]

RECURSIVE Run16P2(_, _)
Run16P2(st, mz) ==
    IF st.queue = {} THEN st
    ELSE Run16P2(Iter16P2(st.queue, st.found, st.dist, st.paths,
                          CHOOSE cur \in MinQueue16(st.queue, st.dist) : TRUE, mz), mz)

\* len(set(pos for k, v in paths.items() for path in v for pos in path
\*         if k[0] == end and dist[k] == min_score))
num_pos(dm, ps, e) ==
    LET ms == min_score(dm, e)
    IN  IF ms.tag = "ValueError" THEN ValueError
        ELSE Returned(Cardinality(UNION {UNION {{ps[k][i][j] : j \in 1..Len(ps[k][i])}
                                           : i \in 1..Len(ps[k])}
                                    : k \in {x \in DOMAIN ps : x[1] = e /\ dm[x] = ms.val}}))

\* The inputs: any start tile, at most MaxWalls inner walls elsewhere.
Init16 ==
    /\ prog \in {"Day16_Part1", "Day16_Part2"}
    /\ pc = "loop"
    /\ ret = Pending
    /\ bytes_pos = None /\ num_fallen = None /\ bounds = None
    /\ \E s \in Inner : \E walls \in SUBSET (Inner \ {s}) :
         /\ Cardinality(walls) <= MaxWalls
         /\ LET in == get_input16(walls, s) IN
            /\ maze = in.maze
            /\ start = <<in.pos, in.facing>>
    /\ end = None
    /\ queue = {start}
    /\ found = {}
    /\ dist = Single(start, 0)
    /\ paths = IF prog = "Day16_Part2" THEN Single(start, << <<start[1]>> >>) ELSE None

Loop16P1 ==
    /\ prog = "Day16_Part1"
    /\ pc = "loop"
    /\ queue # {}
    /\ \E cur \in MinQueue16(queue, dist) :
         \E n \in {Iter16(queue, found, dist, cur, maze)} :
             /\ queue' = n.queue
             /\ found' = n.found
             /\ dist' = n.dist
    /\ UNCHANGED <<prog, pc, ret, bytes_pos, num_fallen, bounds, maze, start, end, paths>>
    /\ UNCHANGED towelVars
    /\ UNCHANGED dayVars

Loop16P2 ==
    /\ prog = "Day16_Part2"
    /\ pc = "loop"
    /\ queue # {}
    /\ \E cur \in MinQueue16(queue, dist) :
         \E n \in {Iter16P2(queue, found, dist, paths, cur, maze)} :
             /\ queue' = n.queue
             /\ found' = n.found
             /\ dist' = n.dist
             /\ paths' = n.paths
    /\ UNCHANGED <<prog, pc, ret, bytes_pos, num_fallen, bounds, maze, start, end>>
    /\ UNCHANGED towelVars
    /\ UNCHANGED dayVars

\* The tiles get_input can have found E on: `end` is read only after the loop, and the
\* maze the loop reads holds '.' there, so the end tile is drawn when it is first read.
EndTiles(mz) == {p \in Inner : At(mz, p) = "."}

Exit16P1 ==
    /\ prog = "Day16_Part1"
    /\ pc = "loop"
    /\ queue = {}
    /\ \E e \in EndTiles(maze) :
         /\ end' = e
         /\ ret' = min_score(dist, e)
    /\ pc' = "done"
    /\ UNCHANGED <<prog, bytes_pos, num_fallen, bounds, maze, start, paths, queue, found, dist>>
    /\ UNCHANGED towelVars
    /\ UNCHANGED dayVars

Exit16P2 ==
    /\ prog = "Day16_Part2"
    /\ pc = "loop"
    /\ queue = {}
    /\ \E e \in EndTiles(maze) :
         /\ end' = e
         /\ ret' = num_pos(dist, paths, e)
    /\ pc' = "done"
    /\ UNCHANGED <<prog, bytes_pos, num_fallen, bounds, maze, start, paths, queue, found, dist>>
    /\ UNCHANGED towelVars
    /\ UNCHANGED dayVars

(***************************************************************************)
(* Day20.py                                                                *)
(***************************************************************************)
\* Day20.py defines the same DIRECTIONS as Day18.py.
DIRECTIONS20 == << <<1, 0>>, <<0, 1>>, <<-1, 0>>, <<0, -1>> >>

\* The maze of get_input, whose outer wall has been cut away: MazeRows x MazeCols
\* tiles counted from (0, 0), s the tile marked S and e the tile marked E.
Tiles20 == (0..(MazeRows - 1)) \X (0..(MazeCols - 1))

\* An input file: a maze of nr x nc tiles inside its outer wall, with walls, S and E.
MazeFile(nr, nc, walls, s, e) == [nr |-> nr, nc |-> nc, walls |-> walls, S |-> s, E |-> e]

\* What get_input returns for the file f.
get_input20(f) ==
    [maze |-> [r \in 1..f.nr |-> [c \in 1..f.nc |->
                 IF <<r - 1, c - 1>> \in f.walls THEN "#"
                 ELSE IF <<r - 1, c - 1>> = f.S THEN "S"
                 ELSE IF <<r - 1, c - 1>> = f.E THEN "E" ELSE "."]],
     walls |-> f.walls,
     pos |-> f.S,
     end |-> f.E]

MinQueue20(q, dm) == {s \in q : \A t \in q : dm[s] <= dm[t]}

\* A faulty variant: a wall is queued like a track tile.
Relax20_walls(st, fnd, pos, d, mz) ==
    LET new_pos == Add(pos, d)
        bnds == <<Len(mz), Len(mz[1])>>
    IN  IF ~(0 <= new_pos[1] /\ new_pos[1] < bnds[1] /\ 0 <= new_pos[2] /\ new_pos[2] < bnds[2])
        THEN st
        ELSE [queue |-> IF new_pos \notin fnd
                        THEN st.queue \cup {new_pos} ELSE st.queue,
              dist  |-> IF new_pos \in DOMAIN st.dist
                        THEN IF st.dist[pos] + 1 < st.dist[new_pos]
                             THEN Put(st.dist, new_pos, st.dist[pos] + 1)
                             ELSE st.dist
                        ELSE Put(st.dist, new_pos, st.dist[pos] + 1)]

\* One pass of the body of `for d in DIRECTIONS` on st = [queue, dist].
Relax20(st, fnd, pos, d, mz) ==
    LET new_pos == Add(pos, d)
        bnds == <<Len(mz), Len(mz[1])>>
    IN  IF ~(0 <= new_pos[1] /\ new_pos[1] < bnds[1] /\ 0 <= new_pos[2] /\ new_pos[2] < bnds[2])
        THEN st
        ELSE [queue |-> IF new_pos \notin fnd /\ At(mz, new_pos) # "#"
                        THEN st.queue \cup {new_pos} ELSE st.queue,
              dist  |-> IF new_pos \in DOMAIN st.dist
                        THEN IF st.dist[pos] + 1 < st.dist[new_pos]
                             THEN Put(st.dist, new_pos, st.dist[pos] + 1)
                             ELSE st.dist
                        ELSE Put(st.dist, new_pos, st.dist[pos] + 1)]

RECURSIVE RelaxAll20(_, _, _, _, _)
RelaxAll20(st, fnd, pos, i, mz) ==
    IF i > Len(DIRECTIONS20) THEN st
    ELSE RelaxAll20(Relax20(st, fnd, pos, DIRECTIONS20[i], mz), fnd, pos, i + 1, mz)

Iter20(q, fnd, dm, pos, mz) ==
    LET st == RelaxAll20([queue |-> q \ {pos}, dist |-> dm], fnd, pos, 1, mz)
    IN  [queue |-> st.queue, found |-> fnd \cup {pos}, dist |-> st.dist]

RECURSIVE Run20(_, _)
Run20(st, mz) ==
    IF st.queue = {} THEN st
    ELSE Run20(Iter20(st.queue, st.found, st.dist,
                      CHOOSE pos \in MinQueue20(st.queue, st.dist) : TRUE, mz), mz)

\* The input files: every maze of MazeRows x MazeCols tiles with at most MaxWalls
\* walls, and a maze whose end is walled off from its start.
Inputs20 ==
    UNION {{MazeFile(MazeRows, MazeCols, w, se[1], se[2]) :
              w \in {x \in SUBSET (Tiles20 \ {se[1], se[2]}) : Cardinality(x) <= MaxWalls}} :
           se \in {y \in Tiles20 \X Tiles20 : y[1] # y[2]}}

WalledOff20 == MazeFile(1, 3, {<<0, 1>>}, <<0, 2>>, <<0, 0>>)

\* shortest_dists(maze, pos) as Day20_Part1 and Day20_Part2 call it first, from the
\* start tile.
Init20 ==
    /\ prog = "shortest_dists"
    /\ pc = "loop"
    /\ ret = Pending
    /\ bytes_pos = None /\ num_fallen = None /\ bounds = None
    /\ \E f \in Inputs20 \cup {WalledOff20} :
         LET in == get_input20(f) IN
         /\ maze = in.maze
         /\ start = in.pos
         /\ end = in.end
    /\ paths = None
    /\ queue = {start}
    /\ found = {}
    /\ dist = Single(start, 0)

Loop20 ==
    /\ prog = "shortest_dists"
    /\ pc = "loop"
    /\ queue # {}
    /\ \E pos \in MinQueue20(queue, dist) :
         \E n \in {Iter20(queue, found, dist, pos, maze)} :
             /\ queue' = n.queue
             /\ found' = n.found
             /\ dist' = n.dist
    /\ UNCHANGED <<prog, pc, ret, bytes_pos, num_fallen, bounds, maze, start, end, paths>>
    /\ UNCHANGED towelVars
    /\ UNCHANGED dayVars

\* return min_dist: the map itself is the result.
Exit20 ==
    /\ prog = "shortest_dists"
    /\ pc = "loop"
    /\ queue = {}
    /\ pc' = "done"
    /\ ret' = [tag |-> "dict", val |-> 0]
    /\ UNCHANGED <<prog, bytes_pos, num_fallen, bounds, maze, start, end, paths,
                   queue, found, dist>>
    /\ UNCHANGED towelVars
    /\ UNCHANGED dayVars


(***************************************************************************)
(* Day19.py.  A str is a sequence of one-character strings.                *)
(***************************************************************************)

\* Longest towel, most towels of an input file and longest design.
MaxTokLen == 2
MaxTowels == 2
MaxDesignLen == 3

\* The stripe colours of the generated towels and designs.
Colours == {"b", "r"}

\* The towels and the designs of the example of the puzzle text.
ExampleTowels ==
    << <<"r">>, <<"w", "r">>, <<"b">>, <<"g">>, <<"b", "w", "u">>, <<"r", "b">>,
       <<"g", "b">>, <<"b", "r">> >>

brwrr == <<"b", "r", "w", "r", "r">>

ubwu == <<"u", "b", "w", "u">>

ExampleDesigns ==
    { brwrr, <<"b", "g", "g", "r">>, <<"g", "b", "b", "r">>,
      <<"r", "r", "b", "g", "b", "r">>, ubwu, <<"b", "w", "u", "r", "r", "g">>,
      <<"b", "r", "g", "r">>, <<"b", "b", "r", "g", "w", "b">> }

Range(sq) == {sq[i] : i \in 1..Len(sq)}

Max(S) == CHOOSE x \in S : \A y \in S : y <= x

Min2(a, b) == IF a < b THEN a ELSE b

\* design[:i]
Prefix(d, i) == SubSeq(d, 1, i)

\* design[i:]
Suffix(d, i) == SubSeq(d, i + 1, Len(d))

\* The mistake of taking the length of the shortest towel.
MaxLenOf_min(tw) == CHOOSE x \in {Len(t) : t \in tw} : \A y \in {Len(t) : t \in tw} : x <= y

\* max(len(t) for t in towels)
MaxLenOf(tw) == Max({Len(t) : t \in tw})

RECURSIVE is_possible(_, _, _)

\* is_possible that commits to the shortest prefix that is a towel and never tries a
\* longer one.
is_possible_greedy(d, tw, mtl) ==
    IF d \in tw
    THEN TRUE
    ELSE \E i \in 1..Min2(mtl, Len(d)) :
             /\ Prefix(d, i) \in tw
             /\ \A j \in 1..(i - 1) : Prefix(d, j) \notin tw
             /\ is_possible(Suffix(d, i), tw, mtl)

\* The for loop returns True at the first prefix that is a towel and whose rest is
\* possible, and the function returns False when there is none.
is_possible(d, tw, mtl) ==
    IF d \in tw
    THEN TRUE
    ELSE \E i \in 1..Min2(mtl, Len(d)) :
             Prefix(d, i) \in tw /\ is_possible(Suffix(d, i), tw, mtl)

\* The prefixes design[:i] that the loops of a call and of the calls below it test
\* against the towels, should no loop return early: `for i in range(1,
\* min(max_t_len, len(design))+1)` in is_possible, which returns before its loop for a
\* design among the towels (stop is the towels, cut is 0), and `for i in range(1,
\* min(max_t_len, len(design)-1)+1)` in num_ways, which returns before its loop for
\* a design in not_composite (stop is not_composite, cut is 1).
RECURSIVE TestedPrefixes(_, _, _, _, _)
TestedPrefixes(d, stop, tw, mtl, cut) ==
    IF d \in stop THEN {}
    ELSE UNION {{Prefix(d, i)} \cup (IF Prefix(d, i) \in tw
                                     THEN TestedPrefixes(Suffix(d, i), stop, tw, mtl, cut)
                                     ELSE {}) :
                i \in 1..Min2(mtl, Len(d) - cut)}

\* The mistake of taking every towel for one that cannot be made of other towels.
NotComposite_all(tt, mtl) == tt

\* tuple(t for t in towels if not is_possible(t, towels.difference({t}), max_t_len)):
\* the towels are iterated in the order tt of the set.
NotComposite(tt, mtl) ==
    SelectSeq(tt, LAMBDA t : ~is_possible(t, Range(tt) \ {t}, mtl))

\* A faulty variant: the cache is keyed by the design alone.
CacheKey_design(d, tw, mtl, nc) == <<d>>

\* The arguments of a call of num_ways, the key of its lru_cache.
CacheKey(d, tw, mtl, nc) == <<d, tw, mtl, nc>>

\* The cache remembers whether the design can be made instead of the number of ways.
CacheMiss_flag(key, r) ==
    [val |-> r.num, cache |-> Put(r.cache, key, IF r.num > 0 THEN 1 ELSE 0)]

\* lru_cache on a miss: the result r.num of the wrapped function is stored under the
\* key and returned.
CacheMiss(key, r) == [val |-> r.num, cache |-> Put(r.cache, key, r.num)]

\* num += num_ways(...), r being the outcome of the recursive call.
Accumulate(acc, r) == [num |-> acc.num + r.val, cache |-> r.cache]

RECURSIVE num_ways(_, _, _, _, _)

RECURSIVE num_ways_loop(_, _, _, _, _, _)

RECURSIVE num_ways_loop_short(_, _, _, _, _, _)

\* A faulty variant: the range of the loop ends one prefix short.
num_ways_loop_short(i, acc, d, tw, mtl, nc) ==
    IF i > Min2(mtl, Len(d) - 1) - 1
    THEN acc
    ELSE IF Prefix(d, i) \in Range(tw)
         THEN num_ways_loop_short(i + 1,
                  Accumulate(acc, num_ways(Suffix(d, i), tw, mtl, nc, acc.cache)),
                  d, tw, mtl, nc)
         ELSE num_ways_loop_short(i + 1, acc, d, tw, mtl, nc)

\* The for loop of num_ways from prefix length i on; acc is num and the cache so far.
num_ways_loop(i, acc, d, tw, mtl, nc) ==
    IF i > Min2(mtl, Len(d) - 1)
    THEN acc
    ELSE IF Prefix(d, i) \in Range(tw)
         THEN num_ways_loop(i + 1,
                  Accumulate(acc, num_ways(Suffix(d, i), tw, mtl, nc, acc.cache)),
                  d, tw, mtl, nc)
         ELSE num_ways_loop(i + 1, acc, d, tw, mtl, nc)

\* The body of num_ways with every towel counted as one way, composite or not.
num_ways_body_towel(d, tw, mtl, nc, c) ==
    IF d \in Range(tw)
    THEN [num |-> 1, cache |-> c]
    ELSE num_ways_loop(1, [num |-> 0, cache |-> c], d, tw, mtl, nc)

\* The body of num_ways, run on a cache miss; c is the cache at the call.
num_ways_body(d, tw, mtl, nc, c) ==
    IF d \in Range(nc)
    THEN [num |-> 1, cache |-> c]
    ELSE num_ways_loop(1, [num |-> IF d \in Range(tw) THEN 1 ELSE 0, cache |-> c],
                       d, tw, mtl, nc)

\* num_ways under functools.lru_cache(maxsize=None): the value returned and the
\* cache after the call.
num_ways(d, tw, mtl, nc, c) ==
    IF CacheKey(d, tw, mtl, nc) \in DOMAIN c
    THEN [val |-> c[CacheKey(d, tw, mtl, nc)], cache |-> c]
    ELSE CacheMiss(CacheKey(d, tw, mtl, nc), num_ways_body(d, tw, mtl, nc, c))

\* The outcome of is_possible.
Bool(b) == [tag |-> "bool", val |-> IF b THEN 1 ELSE 0]

\* The orders in which a set can be iterated.
Orders(S) ==
    {sq \in [1..Cardinality(S) -> S] : \A i, j \in 1..Cardinality(S) : sq[i] = sq[j] => i = j}

\* The sets of towels of the generated input files: up to MaxTowels different non-empty
\* towels of up to MaxTokLen stripes.
TowelSets ==
    {T \in SUBSET (SeqUpTo(Colours, MaxTokLen) \ {<<>>}) : Cardinality(T) \in 1..MaxTowels}

\* The towel tuples: those sets in any iteration order, and the example's towels in the
\* order of the puzzle text.
TowelTuples == {ExampleTowels} \cup UNION {Orders(S) : S \in TowelSets}

\* The designs tried with the towels tt.
Designs(tt) ==
    SeqUpTo(Colours, MaxDesignLen) \cup (IF tt = ExampleTowels THEN ExampleDesigns ELSE {})

NoRace == maze_walls = None /\ dist_from_start = None /\ dist_to_end = None

\* A program uses the variables of its own day only.
NoBisect == L = None /\ R = None

NoDisk ==
    /\ files = None /\ pos9 = None /\ checksum = None /\ end_n = None /\ end_i = None
    /\ n9 = None /\ i9 = None

NoGuard ==
    /\ lines = None /\ pos6 = None /\ facing6 = None /\ all_pos = None
    /\ extra_obs_pos = None /\ extra_obs = None /\ pos_dl = None /\ facing_dl = None
    /\ all_pos_dl = None

NoWarehouse ==
    /\ robot = None /\ boxes = None /\ walls15 = None /\ moves = None /\ left = None
    /\ right = None /\ next_pos = None /\ last_pos = None /\ hit_wall = None
    /\ moving_boxes = None

NoEquations == nums = None /\ ops = None /\ answer = None

NoOtherDays == NoRace /\ NoBisect /\ NoDisk /\ NoGuard /\ NoWarehouse /\ NoEquations

NoSearch ==
    /\ bytes_pos = None /\ num_fallen = None /\ bounds = None /\ maze = None
    /\ start = None /\ end = None /\ paths = None /\ queue = None /\ found = None
    /\ dist = None

\* get_input and the first lines of Day19_Part2 for an input file whose towels are
\* iterated as one of the tuples tts; the cache of num_ways is empty when the module
\* has just been loaded.
Init19From(tts) ==
    /\ prog = "Day19" /\ pc = "idle" /\ ret = Pending
    /\ towels_t \in tts
    /\ towels = Range(towels_t)
    /\ max_t_len = MaxLenOf(towels)
    /\ not_composite = NotComposite(towels_t, max_t_len)
    /\ cache = <<>>
    /\ design = None
    /\ calls = <<>>
    /\ NoSearch
    /\ NoOtherDays

Init19 == Init19From(TowelTuples)

\* Day19_Part1: is_possible(design, towels, max_t_len)
CallIsPossible ==
    /\ prog = "Day19" /\ pc = "idle"
    /\ \E d \in Designs(towels_t) :
           /\ design' = d
           /\ ret' = Bool(is_possible(d, towels, max_t_len))
    /\ prog' = "is_possible"
    /\ pc' = "done"
    /\ UNCHANGED <<towels, max_t_len, towels_t, not_composite, cache, calls>>
    /\ UNCHANGED searchVars
    /\ UNCHANGED dayVars

\* The outcome r of num_ways(d, towels, max_t_len, not_composite) is returned.
Return19(d, r) ==
    /\ design' = d
    /\ ret' = Returned(r.val)
    /\ cache' = r.cache
    /\ calls' = Append(calls, [design |-> d, val |-> r.val])

\* Day19_Part2: the first num_ways(design, towels, max_t_len, not_composite)
CallNumWays ==
    /\ prog = "Day19" /\ pc = "idle"
    /\ \E d \in Designs(towels_t) :
           \E r \in {num_ways(d, towels_t, max_t_len, not_composite, cache)} :
               Return19(d, r)
    /\ prog' = "num_ways"
    /\ pc' = "called"
    /\ UNCHANGED <<towels, max_t_len, towels_t, not_composite>>
    /\ UNCHANGED searchVars
    /\ UNCHANGED dayVars

\* Day19_Part2: the same design occurs again in the list of designs.
CallNumWaysAgain ==
    /\ prog = "num_ways" /\ pc = "called"
    /\ \E r \in {num_ways(design, towels_t, max_t_len, not_composite, cache)} :
           Return19(design, r)
    /\ pc' = "done"
    /\ UNCHANGED <<prog, towels, max_t_len, towels_t, not_composite>>
    /\ UNCHANGED searchVars
    /\ UNCHANGED dayVars

NextTowels == CallIsPossible \/ CallNumWays \/ CallNumWaysAgain

SpecTowels == Init19 /\ [][NextTowels]_vars

\* The towels of a second input file that differs from the first by one towel: a
\* towel of tt is missing, or one towel more comes after those of tt.
OtherTowelTuples(tt) ==
    ({SelectSeq(tt, LAMBDA t : t # x) : x \in Range(tt)} \ {<<>>})
    \cup {Append(tt, x) : x \in (IF Len(tt) < MaxTowels
                                  THEN (SeqUpTo(Colours, MaxTokLen) \ {<<>>}) \ Range(tt)
                                  ELSE {})}

\* The first input file, its towels iterated in one order.
Init19First ==
    Init19From({ExampleTowels} \cup {CHOOSE sq \in Orders(S) : TRUE : S \in TowelSets})

\* Day19_Part2 is called again in the same process with another input file: towels,
\* max_t_len and not_composite are those of the new file, the cache of num_ways is
\* that of the process.
Day19_Part2_Again ==
    /\ prog = "num_ways" /\ pc = "called"
    /\ \E tt \in OtherTowelTuples(towels_t) :
           /\ towels_t' = tt
           /\ towels' = Range(tt)
           /\ max_t_len' = MaxLenOf(Range(tt))
           /\ not_composite' = NotComposite(tt, MaxLenOf(Range(tt)))
    /\ calls' = <<>>
    /\ ret' = Pending
    /\ pc' = "reloaded"
    /\ UNCHANGED <<prog, cache, design>>
    /\ UNCHANGED searchVars
    /\ UNCHANGED dayVars

\* The design of the first file is a design of the second file as well.
CallNumWaysReloaded ==
    /\ prog = "num_ways" /\ pc = "reloaded"
    /\ \E r \in {num_ways(design, towels_t, max_t_len, not_composite, cache)} :
           Return19(design, r)
    /\ pc' = "recalled"
    /\ UNCHANGED <<prog, towels, max_t_len, towels_t, not_composite>>
    /\ UNCHANGED searchVars
    /\ UNCHANGED dayVars

NextReload == CallNumWays \/ Day19_Part2_Again \/ CallNumWaysReloaded

SpecReload == Init19First /\ [][NextReload]_vars

NoTowels ==
    /\ towels = None /\ max_t_len = None /\ towels_t = None /\ not_composite = None
    /\ cache = None /\ design = None /\ calls = None

InitSearch == (Init18 \/ Init16 \/ Init20) /\ NoTowels /\ NoOtherDays

NextSearch == Loop18 \/ Exit18 \/ Loop16P1 \/ Exit16P1 \/ Loop16P2 \/ Exit16P2
              \/ Loop20 \/ Exit20

SpecSearch == InitSearch /\ [][NextSearch]_vars

\* The three searches on the inputs that differ in what the loop reads: the whole
\* byte list fallen in the largest memory space, the reindeer starting in the bottom
\* left corner as in the puzzle, and the race from the first tile to the last.
InitSearchFair ==
    /\ InitSearch
    /\ prog \in {"find_min_dist_to_exit", "Day16_Part1", "shortest_dists"}
    /\ (prog = "find_min_dist_to_exit") =>
          (bounds = <<MaxCoord, MaxCoord>> /\ num_fallen = Len(bytes_pos))
    /\ (prog = "Day16_Part1") => (start[1] = <<MazeRows, 1>>)
    /\ (prog = "shortest_dists") =>
          (start = <<0, 0>> /\ end = <<MazeRows - 1, MazeCols - 1>>)

NextSearchLoops == Loop18 \/ Exit18 \/ Loop16P1 \/ Exit16P1 \/ Loop20 \/ Exit20

\* A loop that can run on does: every step of the searches changes pc, queue or found.
SpecSearchFair ==
    InitSearchFair /\ [][NextSearchLoops]_vars /\ WF_<<pc, queue, found>>(NextSearchLoops)

(***************************************************************************)
(* Day18.py: Day18_Part2.  A call of find_min_dist_to_exit is one step,     *)
(* with min() breaking ties as CHOOSE does.                                 *)
(***************************************************************************)

MaxCoordP2 == 1

MaxBytesP2 == 3

\* find_min_dist_to_exit(num_fallen, bytes_pos, bounds)
find_min_dist_to_exit(nf, bp, bnd) ==
    Return18(Run18([queue |-> {start_pos}, found |-> {}, dist |-> Single(start_pos, 0)],
                   fallen_bytes(bp, nf), bnd).dist, bnd)

\* bounds = (max(max(p) for p in bytes_pos),)*2
bounds_of(bp) ==
    LET mx == Max({Max({bp[i][1], bp[i][2]}) : i \in 1..Len(bp)}) IN <<mx, mx>>

Digits == <<"0", "1", "2", "3", "4", "5", "6", "7", "8", "9">>

\* str(i) of an int i >= 0, as a sequence of characters
RECURSIVE str(_)
str(i) == IF i < 10 THEN <<Digits[i + 1]>> ELSE str(i \div 10) \o <<Digits[(i % 10) + 1]>>

\* ','.join(str(i) for i in p) of a pair p
join_comma(p) == [tag |-> "str", val |-> str(p[1]) \o <<",">> \o str(p[2])]

\* lst[i] with a Python index i: a negative one counts from the end.
Item(lst, i) == IF i < 0 THEN lst[Len(lst) + i + 1] ELSE lst[i + 1]

\* After get_input, which needs a list that is not empty, and L, R = 0, len - 1.
Init18P2 ==
    /\ prog = "Day18_Part2"
    /\ pc = "loop"
    /\ ret = Pending
    /\ bytes_pos \in SeqUpTo((0..MaxCoordP2) \X (0..MaxCoordP2), MaxBytesP2) \ {<<>>}
    /\ bounds = bounds_of(bytes_pos)
    /\ L = 0
    /\ R = Len(bytes_pos) - 1
    /\ num_fallen = None /\ maze = None /\ start = None /\ end = None /\ paths = None
    /\ queue = None /\ found = None /\ dist = None
    /\ NoTowels
    /\ NoRace /\ NoDisk /\ NoGuard /\ NoWarehouse /\ NoEquations

\* if R - L <= 1: break
Bisected == ~(L <= R) \/ R - L <= 1

\* One pass of `while L <= R` that does not break.
Bisect18 ==
    /\ prog = "Day18_Part2" /\ pc = "loop"
    /\ ~Bisected
    /\ LET m == (L + R) \div 2 IN
         IF find_min_dist_to_exit(m, bytes_pos, bounds) # RetNone
         THEN L' = m + 1 /\ R' = R
         ELSE R' = m /\ L' = L
    /\ UNCHANGED <<prog, pc, ret, searchVars>>
    /\ UNCHANGED towelVars
    /\ UNCHANGED notBisectVars

\* first_blockage = ','.join(str(i) for i in bytes_pos[L-1]); return first_blockage
Return18P2 ==
    /\ prog = "Day18_Part2" /\ pc = "loop"
    /\ Bisected
    /\ ret' = join_comma(Item(bytes_pos, L - 1))
    /\ pc' = "done"
    /\ UNCHANGED <<prog, searchVars>>
    /\ UNCHANGED towelVars
    /\ UNCHANGED dayVars

NextBisect == Bisect18 \/ Return18P2

SpecBisect == Init18P2 /\ [][NextBisect]_vars

(***************************************************************************)
(* Day9.py: Day9_Part1.  A step is one pass of an inner `for i` loop.       *)
(***************************************************************************)

MaxDiskLen == 5

MaxDigit == 2

IndexError == [tag |-> "IndexError", val |-> 0]

\* int(c) of a digit c
int(c) == (CHOOSE k \in 1..Len(Digits) : Digits[k] = c) - 1

\* if not len(files)%2: files = files[:-1]
get_input9(line) == IF Len(line) % 2 = 0 THEN SubSeq(line, 1, Len(line) - 1) ELSE line

\* The first lines of the input files: up to MaxDiskLen digits up to MaxDigit, of
\* which those of the files, the 1st, 3rd, ..., are not 0.
DiskMaps ==
    {line \in SeqUpTo({Digits[k + 1] : k \in 0..MaxDigit}, MaxDiskLen) \ {<<>>} :
        \A k \in 1..Len(line) : k % 2 = 1 => line[k] # "0"}

\* The first n >= from for which range(int(files[n])) is not empty; len(files) when
\* there is none, and the loop over files ends.
RECURSIVE NextFile(_, _)
NextFile(fs, from) ==
    IF from >= Len(fs) \/ int(Item(fs, from)) > 0 THEN from ELSE NextFile(fs, from + 1)

Init9 ==
    /\ prog = "Day9_Part1"
    /\ pc = "loop"
    /\ ret = Pending
    /\ files \in {get_input9(line) : line \in DiskMaps}
    /\ pos9 = 0
    /\ checksum = 0
    /\ end_n = Len(files) - 1
    /\ end_i = int(Item(files, end_n))
    /\ n9 = NextFile(files, 0)
    /\ i9 = 0
    /\ NoSearch
    /\ NoTowels
    /\ NoRace /\ NoBisect /\ NoGuard /\ NoWarehouse /\ NoEquations

\* if end_n <= n and end_i - 1 <= i
MeetsEnd(en, ei, n, i) == en <= n /\ ei - 1 <= i

\* What follows a pass of an inner loop that added to sum: done and break, and the
\* return, or the next pass; en and ei are end_n and end_i after the pass.
AfterPass9(sum, en, ei) ==
    IF MeetsEnd(en, ei, n9, i9)
    THEN /\ pc' = "done"
         /\ ret' = Returned(sum)
         /\ UNCHANGED <<n9, i9>>
    ELSE /\ UNCHANGED <<pc, ret>>
         /\ IF i9 + 1 < int(Item(files, n9))
            THEN n9' = n9 /\ i9' = i9 + 1
            ELSE n9' = NextFile(files, n9 + 1) /\ i9' = 0

\* One pass of the loop over the length of a file.
FileBlock9 ==
    /\ prog = "Day9_Part1" /\ pc = "loop"
    /\ n9 < Len(files) /\ n9 % 2 = 0
    /\ checksum' = checksum + ((pos9 * n9) \div 2)
    /\ pos9' = pos9 + 1
    /\ AfterPass9(checksum', end_n, end_i)
    /\ UNCHANGED <<prog, files, end_n, end_i>>
    /\ UNCHANGED <<searchVars, towelVars, notDiskVars>>

\* One pass of the loop over the length of a free space.
FreeBlock9 ==
    /\ prog = "Day9_Part1" /\ pc = "loop"
    /\ n9 < Len(files) /\ n9 % 2 = 1
    /\ checksum' = checksum + ((pos9 * end_n) \div 2)
    /\ IF end_i - 1 <= 0
       THEN IF end_n - 2 < -Len(files)
            THEN /\ pc' = "done"
                 /\ ret' = IndexError
                 /\ end_n' = end_n - 2
                 /\ end_i' = end_i - 1
                 /\ UNCHANGED <<pos9, n9, i9>>
            ELSE /\ end_n' = end_n - 2
                 /\ end_i' = int(Item(files, end_n'))
                 /\ pos9' = pos9 + 1
                 /\ AfterPass9(checksum', end_n', end_i')
       ELSE /\ end_n' = end_n
            /\ end_i' = end_i - 1
            /\ pos9' = pos9 + 1
            /\ AfterPass9(checksum', end_n', end_i')
    /\ UNCHANGED <<prog, files>>
    /\ UNCHANGED <<searchVars, towelVars, notDiskVars>>

\* The loop over files ends without done: return checksum
Return9 ==
    /\ prog = "Day9_Part1" /\ pc = "loop"
    /\ n9 >= Len(files)
    /\ pc' = "done"
    /\ ret' = Returned(checksum)
    /\ UNCHANGED <<prog, diskVars>>
    /\ UNCHANGED <<searchVars, towelVars, notDiskVars>>

NextDisk == FileBlock9 \/ FreeBlock9 \/ Return9

SpecDisk == Init9 /\ [][NextDisk]_vars

(***************************************************************************)
(* Day6.py: does_loop and Day6_Part2.  A step is one pass of a `while`.     *)
(***************************************************************************)

MapRows == 2

MapCols == 2

MaxObs == 2

\* Map of direction changes corresponding to a 90 degree turn to the right
TURNS == [f \in {<<-1, 0>>, <<0, 1>>, <<1, 0>>, <<0, -1>>} |->
            IF f = <<-1, 0>> THEN <<0, 1>>
            ELSE IF f = <<0, 1>> THEN <<1, 0>>
            ELSE IF f = <<1, 0>> THEN <<0, -1>> ELSE <<-1, 0>>]

\* The symbols of the guard and the facings get_input reads from them.
FacingOf == [c \in {"^", ">", "v", "<"} |->
               IF c = "^" THEN <<-1, 0>>
               ELSE IF c = ">" THEN <<0, 1>>
               ELSE IF c = "v" THEN <<1, 0>> ELSE <<0, -1>>]

\* The map of nr x nc characters with obstacles at obs and the guard g = <<pos, symbol>>.
MapOf(nr, nc, obs, g) ==
    [r \in 1..nr |-> [c \in 1..nc |->
        IF <<r - 1, c - 1>> \in obs THEN "#"
        ELSE IF <<r - 1, c - 1>> = g[1] THEN g[2] ELSE "."]]

Cells6 == (0..(MapRows - 1)) \X (0..(MapCols - 1))

\* Every map of MapRows x MapCols characters with at most MaxObs obstacles.
SmallMaps ==
    UNION {{MapOf(MapRows, MapCols, obs, g) :
              obs \in {x \in SUBSET (Cells6 \ {g[1]}) : Cardinality(x) <= MaxObs}} :
           g \in Cells6 \X DOMAIN FacingOf}

\* The example of the puzzle, on which six obstacles make a loop.
PuzzleMap ==
    MapOf(10, 10, {<<0, 4>>, <<1, 9>>, <<3, 2>>, <<4, 7>>, <<6, 1>>, <<7, 8>>, <<8, 0>>,
                   <<9, 6>>}, <<<<6, 4>>, "^">>)

\* A guard with obstacles on three sides and on all four sides.
ThreeSidesMap == MapOf(3, 3, {<<1, 2>>, <<2, 1>>, <<1, 0>>}, <<<<1, 1>>, "^">>)

FourSidesMap == MapOf(3, 3, {<<0, 1>>, <<1, 2>>, <<2, 1>>, <<1, 0>>}, <<<<1, 1>>, "^">>)

\* The example of the puzzle with one more obstacle, anywhere but under the guard.
PuzzleVariants ==
    {[PuzzleMap EXCEPT ![p[1]][p[2]] = "#"] :
        p \in {q \in (1..10) \X (1..10) : PuzzleMap[q[1]][q[2]] = "."}}

\* The maps of the input files.
Maps6 == SmallMaps \cup {PuzzleMap, ThreeSidesMap, FourSidesMap} \cup PuzzleVariants

\* start_pos of get_input: the first cell, row by row, that is neither '.' nor '#'.
start_pos6(ls) ==
    LET G == {p \in (0..(Len(ls) - 1)) \X (0..(Len(ls[1]) - 1)) : At(ls, p) \notin {".", "#"}}
    IN  CHOOSE p \in G : \A q \in G : p[1] < q[1] \/ (p[1] = q[1] /\ p[2] <= q[2])

\* start_facing of get_input
start_facing6(ls) == FacingOf[At(ls, start_pos6(ls))]

\* 0 <= pos[0] + facing[0] < len(lines) and 0 <= pos[1] + facing[1] < len(lines[0])
InBounds6(ls, p) == 0 <= p[1] /\ p[1] < Len(ls) /\ 0 <= p[2] /\ p[2] < Len(ls[1])

\* lines[r, c] = ch on a copy of lines
SetAt(ls, p, ch) == [ls EXCEPT ![p[1] + 1][p[2] + 1] = ch]

\* all_pos[pos].add(facing), or all_pos[pos] = {facing} for a new pos
Visit(ap, p, f) == Put(ap, p, IF p \in DOMAIN ap THEN ap[p] \cup {f} ELSE {f})

\* does_loop(pos, facing, lines, all_pos) called on its own, for a guard whose
\* position is all that is recorded.
InitDoesLoop ==
    /\ prog = "does_loop"
    /\ pc = "does_loop"
    /\ extra_obs \in Maps6
    /\ pos_dl = start_pos6(extra_obs)
    /\ facing_dl = start_facing6(extra_obs)
    /\ all_pos_dl = Single(pos_dl, {facing_dl})
    /\ lines = None /\ pos6 = None /\ facing6 = None /\ all_pos = None
    /\ extra_obs_pos = None

\* Day6_Part2 after get_input; the arguments of does_loop, not in use before the
\* first call, are those a call would have.
InitDay6Part2 ==
    /\ prog = "Day6_Part2"
    /\ pc = "while"
    /\ lines \in Maps6
    /\ pos6 = start_pos6(lines)
    /\ facing6 = start_facing6(lines)
    /\ all_pos = Single(pos6, {facing6})
    /\ extra_obs_pos = {}
    /\ extra_obs = lines /\ pos_dl = pos6 /\ facing_dl = facing6 /\ all_pos_dl = all_pos

Init6 ==
    /\ ret = Pending
    /\ InitDoesLoop \/ InitDay6Part2
    /\ NoSearch
    /\ NoTowels
    /\ NoRace /\ NoBisect /\ NoDisk /\ NoWarehouse /\ NoEquations

InDoesLoop == prog \in {"does_loop", "Day6_Part2"} /\ pc = "does_loop"

\* does_loop returns b: to the caller of the model, or into the `if` of Day6_Part2,
\* which adds the cell ahead of the guard to extra_obs_pos.
Return_does_loop(b) ==
    IF prog = "does_loop"
    THEN /\ pc' = "done"
         /\ ret' = Bool(b)
         /\ UNCHANGED guardVars
    ELSE /\ pc' = "move"
         /\ extra_obs_pos' = IF b THEN extra_obs_pos \cup {Add(pos6, facing6)}
                              ELSE extra_obs_pos
         /\ UNCHANGED <<ret, lines, pos6, facing6, all_pos>>

\* if pos in all_pos: if facing in all_pos[pos]
Looped(ap, p, f) == p \in DOMAIN ap /\ f \in ap[p]

\* The next space is empty: move, and go on when this is no loop.
DoesLoopMove ==
    /\ InDoesLoop
    /\ InBounds6(extra_obs, Add(pos_dl, facing_dl))
    /\ At(extra_obs, Add(pos_dl, facing_dl)) # "#"
    /\ ~Looped(all_pos_dl, Add(pos_dl, facing_dl), facing_dl)
    /\ pos_dl' = Add(pos_dl, facing_dl)
    /\ all_pos_dl' = Visit(all_pos_dl, pos_dl', facing_dl)
    /\ UNCHANGED <<prog, pc, ret, extra_obs, facing_dl, guardVars>>
    /\ UNCHANGED <<searchVars, towelVars, notGuardVars>>

\* The next space is an obstacle: turn.
DoesLoopTurn ==
    /\ InDoesLoop
    /\ InBounds6(extra_obs, Add(pos_dl, facing_dl))
    /\ At(extra_obs, Add(pos_dl, facing_dl)) = "#"
    /\ facing_dl' = TURNS[facing_dl]
    /\ all_pos_dl' = Visit(all_pos_dl, pos_dl, facing_dl')
    /\ UNCHANGED <<prog, pc, ret, extra_obs, pos_dl, guardVars>>
    /\ UNCHANGED <<searchVars, towelVars, notGuardVars>>

\* return True
DoesLoopTrue ==
    /\ InDoesLoop
    /\ InBounds6(extra_obs, Add(pos_dl, facing_dl))
    /\ At(extra_obs, Add(pos_dl, facing_dl)) # "#"
    /\ Looped(all_pos_dl, Add(pos_dl, facing_dl), facing_dl)
    /\ pos_dl' = Add(pos_dl, facing_dl)
    /\ Return_does_loop(TRUE)
    /\ UNCHANGED <<prog, extra_obs, facing_dl, all_pos_dl>>
    /\ UNCHANGED <<searchVars, towelVars, notGuardVars>>

\* return False
DoesLoopFalse ==
    /\ InDoesLoop
    /\ ~InBounds6(extra_obs, Add(pos_dl, facing_dl))
    /\ Return_does_loop(FALSE)
    /\ UNCHANGED <<prog, doesLoopVars>>
    /\ UNCHANGED <<searchVars, towelVars, notGuardVars>>

\* The top of the loop of Day6_Part2, with the guard inside the map: when the next
\* space is empty and not yet visited, does_loop is called on a copy of the map
\* with an obstacle there and a copy of all_pos.
Test6 ==
    /\ prog = "Day6_Part2" /\ pc = "while"
    /\ InBounds6(lines, Add(pos6, facing6))
    /\ IF At(lines, Add(pos6, facing6)) # "#" /\ Add(pos6, facing6) \notin DOMAIN all_pos
       THEN /\ extra_obs' = SetAt(lines, Add(pos6, facing6), "#")
            /\ pos_dl' = pos6
            /\ facing_dl' = facing6
            /\ all_pos_dl' = all_pos
            /\ pc' = "does_loop"
       ELSE /\ pc' = "move"
            /\ UNCHANGED doesLoopVars
    /\ UNCHANGED <<prog, ret, guardVars>>
    /\ UNCHANGED <<searchVars, towelVars, notGuardVars>>

\* The rest of the pass: move into the next space, or turn.
Move6 ==
    /\ prog = "Day6_Part2" /\ pc = "move"
    /\ IF At(lines, Add(pos6, facing6)) # "#"
       THEN /\ pos6' = Add(pos6, facing6)
            /\ all_pos' = Visit(all_pos, pos6', facing6)
            /\ UNCHANGED facing6
       ELSE /\ facing6' = TURNS[facing6]
            /\ all_pos' = Visit(all_pos, pos6, facing6')
            /\ UNCHANGED pos6
    /\ pc' = "while"
    /\ UNCHANGED <<prog, ret, lines, extra_obs_pos, doesLoopVars>>
    /\ UNCHANGED <<searchVars, towelVars, notGuardVars>>

\* The guard has left the map: return len(extra_obs_pos)
Leave6 ==
    /\ prog = "Day6_Part2" /\ pc = "while"
    /\ ~InBounds6(lines, Add(pos6, facing6))
    /\ pc' = "done"
    /\ ret' = Returned(Cardinality(extra_obs_pos))
    /\ UNCHANGED <<prog, guardVars, doesLoopVars>>
    /\ UNCHANGED <<searchVars, towelVars, notGuardVars>>

NextGuard == DoesLoopMove \/ DoesLoopTurn \/ DoesLoopTrue \/ DoesLoopFalse
             \/ Test6 \/ Move6 \/ Leave6

SpecGuard == Init6 /\ [][NextGuard]_vars

\* The loops run on as long as they can.
SpecGuardFair == SpecGuard /\ WF_vars(NextGuard)

(***************************************************************************)
(* Day15.py: Day15_Part1 and Day15_Part2, the robot that pushes boxes.      *)
(***************************************************************************)

\* Rows and columns of a generated warehouse inside its outer wall, the most boxes in
\* it, and the most moves after it in the input file.
RoomRows == 2

RoomCols == 2

MaxBoxes == 2

MaxMoves == 1

\* Map of instruction symbols to the corresponding shift of robot position
MOVES == [c \in {"v", ">", "^", "<"} |->
            IF c = "v" THEN <<1, 0>>
            ELSE IF c = ">" THEN <<0, 1>>
            ELSE IF c = "^" THEN <<-1, 0>> ELSE <<0, -1>>]

\* The map of an input file: nr x nc tiles, a wall all around and at ws, boxes at bs
\* and the robot at rb.
Room(nr, nc, ws, bs, rb) ==
    [r \in 1..nr |-> [c \in 1..nc |->
        IF r \in {1, nr} \/ c \in {1, nc} \/ <<r - 1, c - 1>> \in ws THEN "#"
        ELSE IF <<r - 1, c - 1>> \in bs THEN "O"
        ELSE IF <<r - 1, c - 1>> = rb THEN "@" ELSE "."]]

\* An input file: the map, an empty line, the moves.
File15(map, mvs) == [map |-> map, moves |-> mvs]

\* The first example of the puzzle.
Example15a ==
    File15(Room(8, 8, {<<2, 1>>, <<4, 2>>},
                {<<1, 3>>, <<1, 5>>, <<2, 4>>, <<3, 4>>, <<4, 4>>, <<5, 4>>}, <<2, 2>>),
           <<"<", "^", "^", ">", ">", ">", "v", "v", "<", "v", ">", ">", "v", "<", "<">>)

\* The example of the puzzle for the wide boxes.
Example15b ==
    File15(Room(7, 7, {<<1, 4>>}, {<<3, 3>>, <<3, 4>>, <<4, 3>>}, <<3, 5>>),
           <<"<", "v", "v", "<", "<", "^", "^", "<", "<", "^", "^">>)

\* A wide box pushed up against two boxes, one of them under a wall.
Example15c ==
    File15(Room(6, 6, {<<1, 2>>}, {<<2, 1>>, <<2, 2>>, <<3, 2>>}, <<3, 3>>),
           <<"<", "v", "<", "^", ">", "^">>)

\* The generated input files: the robot and up to nb boxes anywhere in a room of
\* nr x nc tiles inside its wall, and up to nm moves.
GeneratedFiles(nr, nc, nb, nm) ==
    UNION {{File15(Room(nr + 2, nc + 2, {}, bs, rb), mvs) :
              bs \in {x \in SUBSET (((1..nr) \X (1..nc)) \ {rb}) : Cardinality(x) <= nb},
              mvs \in SeqUpTo(DOMAIN MOVES, nm)} :
           rb \in (1..nr) \X (1..nc)}

\* l.replace('#', '##').replace('O', '[]').replace('.', '..').replace('@', '@.')
RECURSIVE widen(_)
widen(l) ==
    IF l = <<>> THEN <<>>
    ELSE (IF Head(l) = "#" THEN <<"#", "#">>
          ELSE IF Head(l) = "O" THEN <<"[", "]">>
          ELSE IF Head(l) = "." THEN <<".", ".">>
          ELSE IF Head(l) = "@" THEN <<"@", ".">> ELSE <<Head(l)>>) \o widen(Tail(l))

\* The coordinates (r, c) of the tiles t of the lines ls.
TilesOf(ls, t) ==
    {p \in UNION {{<<r - 1, c - 1>> : c \in DOMAIN ls[r]} : r \in DOMAIN ls} :
        ls[p[1] + 1][p[2] + 1] = t}

\* get_input(input_file, widen): robot, boxes, walls, moves
get_input15(f, w) ==
    LET ls == [r \in DOMAIN f.map |-> IF w THEN widen(f.map[r]) ELSE f.map[r]] IN
    [robot |-> CHOOSE p \in TilesOf(ls, "@") : TRUE,
     boxes |-> TilesOf(ls, "O") \cup {<<p, <<p[1], p[2] + 1>>>> : p \in TilesOf(ls, "[")},
     walls |-> TilesOf(ls, "#"),
     moves |-> f.moves]

\* Day15_Part1 after get_input, on a generated file or on an example.
InitDay15Part1 ==
    /\ prog = "Day15_Part1"
    /\ \E f \in GeneratedFiles(RoomRows, RoomCols, MaxBoxes, MaxMoves)
                \cup {Example15a, Example15b, Example15c} :
         \E in \in {get_input15(f, FALSE)} :
         /\ robot = in.robot
         /\ boxes = in.boxes
         /\ walls15 = in.walls
         /\ moves = in.moves
    /\ left = None /\ right = None /\ hit_wall = None /\ moving_boxes = None

\* Day15_Part2 after get_input and the making of left and right, which run over the
\* set of boxes in any order; on a generated file or on an example of wide boxes.
\* hit_wall and moving_boxes, assigned anew by every push, start as a push starts them.
InitDay15Part2 ==
    /\ prog = "Day15_Part2"
    /\ \E f \in GeneratedFiles(RoomRows, RoomCols, MaxBoxes, MaxMoves)
                \cup {Example15b, Example15c} :
         \E in \in {get_input15(f, TRUE)} :
         /\ robot = in.robot
         /\ boxes = in.boxes
         /\ walls15 = in.walls
         /\ moves = in.moves
         /\ \E o \in Orders(in.boxes) :
              /\ left = [i \in DOMAIN o |-> o[i][1]]
              /\ right = [i \in DOMAIN o |-> o[i][2]]
    /\ last_pos = None
    /\ hit_wall = FALSE
    /\ moving_boxes = {}

Init15 ==
    /\ pc = "moves"
    /\ ret = Pending
    /\ next_pos = None
    /\ (InitDay15Part1 /\ last_pos = None) \/ InitDay15Part2
    /\ NoSearch
    /\ NoTowels
    /\ NoRace /\ NoBisect /\ NoDisk /\ NoGuard /\ NoEquations

\* while (last_pos := (next_pos[0] + (num_boxes*MOVES[m][0]), ...)) in boxes:
\*     num_boxes += 1
RECURSIVE LastPos(_, _, _, _)
LastPos(np, d, bxs, num_boxes) ==
    LET lp == <<np[1] + num_boxes * d[1], np[2] + num_boxes * d[2]>> IN
    IF lp \in bxs THEN LastPos(np, d, bxs, num_boxes + 1) ELSE lp

\* sum((100*x)+y for x, y in boxes), over a set
RECURSIVE total_gps(_)
total_gps(bxs) ==
    IF bxs = {} THEN 0
    ELSE LET b == CHOOSE x \in bxs : TRUE IN 100 * b[1] + b[2] + total_gps(bxs \ {b})

\* sum((100*x)+y for x, y in left), over a list
RECURSIVE total_gps_list(_)
total_gps_list(lst) ==
    IF lst = <<>> THEN 0
    ELSE 100 * Head(lst)[1] + Head(lst)[2] + total_gps_list(Tail(lst))

\* One pass of `for m in moves` of Day15_Part1.
Move15P1 ==
    /\ prog = "Day15_Part1" /\ pc = "moves"
    /\ moves # <<>>
    /\ LET d == MOVES[Head(moves)]
           np == Add(robot, d)
           lp == LastPos(np, d, boxes, 1)
       IN  /\ next_pos' = np
           /\ IF np \in walls15
              THEN UNCHANGED <<robot, boxes, last_pos>>
              ELSE IF np \in boxes
              THEN /\ last_pos' = lp
                   /\ IF lp \in walls15
                      THEN UNCHANGED <<robot, boxes>>
                      ELSE /\ robot' = np
                           /\ boxes' = (boxes \ {np}) \cup {lp}
              ELSE /\ robot' = np
                   /\ UNCHANGED <<boxes, last_pos>>
    /\ moves' = Tail(moves)
    /\ UNCHANGED <<prog, pc, ret, walls15, left, right, hit_wall, moving_boxes>>
    /\ UNCHANGED <<searchVars, towelVars, notWarehouseVars>>

\* return total_gps
Return15P1 ==
    /\ prog = "Day15_Part1" /\ pc = "moves"
    /\ moves = <<>>
    /\ pc' = "done"
    /\ ret' = Returned(total_gps(boxes))
    /\ UNCHANGED <<prog, warehouseVars>>
    /\ UNCHANGED <<searchVars, towelVars, notWarehouseVars>>

\* x in lst
Contains(lst, x) == \E i \in DOMAIN lst : lst[i] = x

\* lst.index(x)
index(lst, x) == CHOOSE i \in DOMAIN lst : lst[i] = x /\ \A j \in 1..(i - 1) : lst[j] # x

\* lst.remove(x)
remove(lst, x) == SubSeq(lst, 1, index(lst, x) - 1) \o SubSeq(lst, index(lst, x) + 1, Len(lst))

\* other(this, left, right): the other half of a wide box
other(this, lf, rt) ==
    IF Contains(lf, this) THEN rt[index(lf, this)]
    ELSE IF Contains(rt, this) THEN lf[index(rt, this)]
    ELSE None

\* The mistake of looking only at the half that is directly ahead.
NextLayer_half(layer, d, lf, rt) ==
    {Add(b, d) : b \in {x \in layer : /\ Add(x, d) # other(x, lf, rt)
                                      /\ \/ Contains(lf, Add(x, d))
                                         \/ Contains(rt, Add(x, d))}}

\* next_layer after the `for bx, by in last_layer` that meets no wall: both halves of
\* every box ahead of a half of the last layer, but for the own other half.
NextLayer(layer, d, lf, rt) ==
    UNION {LET next_test == Add(b, d) IN
           IF next_test = other(b, lf, rt) THEN {}
           ELSE IF Contains(lf, next_test) \/ Contains(rt, next_test)
           THEN {next_test, other(next_test, lf, rt)}
           ELSE {} : b \in layer}

\* The mistake of never looking for a wall ahead of the boxes.
RECURSIVE Push_nowall(_, _, _, _, _, _)
Push_nowall(moving, last_layer, d, lf, rt, w) ==
    IF last_layer = {} THEN [hit_wall |-> FALSE, moving_boxes |-> moving]
    ELSE Push_nowall(moving \cup NextLayer(last_layer, d, lf, rt),
                     NextLayer(last_layer, d, lf, rt), d, lf, rt, w)

\* `while last_layer`: hit_wall and moving_boxes when it ends. A wall ahead of any
\* half of the last layer breaks out of both loops before moving_boxes is updated.
RECURSIVE Push(_, _, _, _, _, _)
Push(moving, last_layer, d, lf, rt, w) ==
    IF last_layer = {} THEN [hit_wall |-> FALSE, moving_boxes |-> moving]
    ELSE IF \E b \in last_layer : Add(b, d) \in w
    THEN [hit_wall |-> TRUE, moving_boxes |-> moving]
    ELSE Push(moving \cup NextLayer(last_layer, d, lf, rt),
              NextLayer(last_layer, d, lf, rt), d, lf, rt, w)

\* `for box in moving_boxes`, in the order ord, then left += moved_left and
\* right += moved_right.
RECURSIVE MoveBoxes(_, _, _, _, _, _)
MoveBoxes(ord, d, lf, rt, moved_left, moved_right) ==
    IF ord = <<>> THEN [left |-> lf \o moved_left, right |-> rt \o moved_right]
    ELSE LET box == Head(ord)
             other_box == other(box, lf, rt)
         IN  IF Contains(lf, box)
             THEN MoveBoxes(Tail(ord), d, remove(lf, box), remove(rt, other_box),
                            Append(moved_left, Add(box, d)),
                            Append(moved_right, Add(other_box, d)))
             ELSE IF Contains(rt, box)
             THEN MoveBoxes(Tail(ord), d, remove(lf, other_box), remove(rt, box),
                            Append(moved_left, Add(other_box, d)),
                            Append(moved_right, Add(box, d)))
             ELSE MoveBoxes(Tail(ord), d, lf, rt, moved_left, moved_right)

\* One pass of `for m in moves` of Day15_Part2.
Move15P2 ==
    /\ prog = "Day15_Part2" /\ pc = "moves"
    /\ moves # <<>>
    /\ LET d == MOVES[Head(moves)]
           np == Add(robot, d)
       IN  /\ next_pos' = np
           /\ IF np \in walls15
              THEN UNCHANGED <<robot, left, right, hit_wall, moving_boxes>>
              ELSE IF Contains(left, np) \/ Contains(right, np)
              THEN LET first == {np, other(np, left, right)}
                       push == Push(first, first, d, left, right, walls15)
                   IN  /\ hit_wall' = push.hit_wall
                       /\ moving_boxes' = push.moving_boxes
                       /\ IF push.hit_wall
                          THEN UNCHANGED <<robot, left, right>>
                          ELSE /\ robot' = np
                               /\ \E ord \in Orders(push.moving_boxes) :
                                    LET moved == MoveBoxes(ord, d, left, right, <<>>, <<>>)
                                    IN  /\ left' = moved.left
                                        /\ right' = moved.right
              ELSE /\ robot' = np
                   /\ UNCHANGED <<left, right, hit_wall, moving_boxes>>
    /\ moves' = Tail(moves)
    /\ UNCHANGED <<prog, pc, ret, boxes, walls15, last_pos>>
    /\ UNCHANGED <<searchVars, towelVars, notWarehouseVars>>

\* return total_gps
Return15P2 ==
    /\ prog = "Day15_Part2" /\ pc = "moves"
    /\ moves = <<>>
    /\ pc' = "done"
    /\ ret' = Returned(total_gps_list(left))
    /\ UNCHANGED <<prog, warehouseVars>>
    /\ UNCHANGED <<searchVars, towelVars, notWarehouseVars>>

NextWarehouse == Move15P1 \/ Return15P1 \/ Move15P2 \/ Return15P2

SpecWarehouse == Init15 /\ [][NextWarehouse]_vars

(***************************************************************************)
(* Day20.py: Day20_Part1 and Day20_Part2.  Both call shortest_dists twice,   *)
(* from the start and from the end, and then count the savings.             *)
(***************************************************************************)

\* if man_dist <= 20
MaxCheatDist == 20

\* if k >= 100
MinSaving == 100

KeyError == [tag |-> "KeyError", val |-> 0]

\* A race track as in the puzzle: a single winding path from S in the top left
\* corner, along every other row of nr x nc tiles, to E at the end of the last row.
SerpentineWalls(nr, nc) ==
    {t \in (0..(nr - 1)) \X (0..(nc - 1)) :
        t[1] % 2 = 1 /\ t[2] # (IF t[1] % 4 = 1 THEN nc - 1 ELSE 0)}

Serpentine(nr, nc) ==
    MazeFile(nr, nc, SerpentineWalls(nr, nc), <<0, 0>>,
             <<nr - 1, IF ((nr - 1) \div 2) % 2 = 0 THEN nc - 1 ELSE 0>>)

\* The input files: those of Init20, and a winding track long enough for cheats that
\* save MinSaving.
RaceInputs == Inputs20 \cup {WalledOff20, Serpentine(5, 60)}

InitRace ==
    /\ prog \in {"Day20_Part1", "Day20_Part2"}
    /\ pc = "get_input"
    /\ ret = Pending
    /\ \E f \in RaceInputs :
         LET in == get_input20(f) IN
         /\ maze = in.maze
         /\ maze_walls = in.walls
         /\ start = in.pos
         /\ end = in.end
    /\ dist_from_start = None /\ dist_to_end = None
    /\ NoBisect /\ NoDisk /\ NoGuard /\ NoWarehouse /\ NoEquations
    /\ bytes_pos = None /\ num_fallen = None /\ bounds = None /\ paths = None
    /\ queue = None /\ found = None /\ dist = None
    /\ NoTowels

IsRace == prog \in {"Day20_Part1", "Day20_Part2"}

\* dist_from_start = shortest_dists(maze, pos): the call.
CallDistFromStart ==
    /\ IsRace /\ pc = "get_input"
    /\ queue' = {start}
    /\ found' = {}
    /\ dist' = Single(start, 0)
    /\ pc' = "dist_from_start"
    /\ UNCHANGED <<prog, ret, bytes_pos, num_fallen, bounds, maze, start, end, paths>>
    /\ UNCHANGED towelVars
    /\ UNCHANGED dayVars

\* One pass of `while queue` inside either call of shortest_dists.
LoopRace ==
    /\ IsRace /\ pc \in {"dist_from_start", "dist_to_end"}
    /\ queue # {}
    /\ \E pos \in MinQueue20(queue, dist) :
         \E n \in {Iter20(queue, found, dist, pos, maze)} :
             /\ queue' = n.queue
             /\ found' = n.found
             /\ dist' = n.dist
    /\ UNCHANGED <<prog, pc, ret, bytes_pos, num_fallen, bounds, maze, start, end, paths>>
    /\ UNCHANGED towelVars
    /\ UNCHANGED dayVars

\* The first call returns and dist_to_end = shortest_dists(maze, end) is called.
CallDistToEnd ==
    /\ IsRace /\ pc = "dist_from_start"
    /\ queue = {}
    /\ dist_from_start' = dist
    /\ queue' = {end}
    /\ found' = {}
    /\ dist' = Single(end, 0)
    /\ pc' = "dist_to_end"
    /\ UNCHANGED <<prog, ret, bytes_pos, num_fallen, bounds, maze, start, end, paths>>
    /\ UNCHANGED towelVars
    /\ UNCHANGED <<maze_walls, dist_to_end>>
    /\ UNCHANGED notRaceVars

\* The second call returns.
ReturnDistToEnd ==
    /\ IsRace /\ pc = "dist_to_end"
    /\ queue = {}
    /\ dist_to_end' = dist
    /\ pc' = "savings"
    /\ UNCHANGED <<prog, ret, searchVars>>
    /\ UNCHANGED towelVars
    /\ UNCHANGED <<maze_walls, dist_from_start>>
    /\ UNCHANGED notRaceVars

\* connected_walls ... return num_saving_100 of Day20_Part1.  A subscript of a
\* map by a key it lacks raises KeyError.
savings_Part1(walls, e, dS, dE) ==
    LET connected_walls == {w \in walls : w \in DOMAIN dS}
    IN  IF connected_walls # {} /\ (e \notin DOMAIN dS \/ \E w \in connected_walls : w \notin DOMAIN dE)
        THEN KeyError
        ELSE Returned(Cardinality({w \in connected_walls :
                                      dS[e] - (dS[w] + dE[w]) >= MinSaving}))

man_dist(a, b) == Abs(a[1] - b[1]) + Abs(a[2] - b[2])

\* combinations(tracks, 2): each pair once, in the order of the list tracks.
combinations2(tracks) ==
    {p \in tracks \X tracks :
        p[1][1] < p[2][1] \/ (p[1][1] = p[2][1] /\ p[1][2] < p[2][2])}

InCheatRange_any(a, b) == TRUE

\* if man_dist <= 20
InCheatRange(a, b) == man_dist(a, b) <= MaxCheatDist

\* tracks ... return num_saving_100 of Day20_Part2.
savings_Part2(mz, walls, e, dS, dE) ==
    LET tracks == {t \in (0..(Len(mz) - 1)) \X (0..(Len(mz[1]) - 1)) : t \notin walls}
        near == {p \in combinations2(tracks) : InCheatRange(p[1], p[2])}
        min_dist(p) == Min2(dS[p[1]] + dE[p[2]] + man_dist(p[1], p[2]),
                            dS[p[2]] + dE[p[1]] + man_dist(p[1], p[2]))
    IN  IF near # {} /\ (\/ e \notin DOMAIN dS
                         \/ \E p \in near : \E t \in {p[1], p[2]} :
                                t \notin DOMAIN dS \/ t \notin DOMAIN dE)
        THEN KeyError
        ELSE Returned(Cardinality({p \in near : dS[e] - min_dist(p) >= MinSaving}))

Return20P1 ==
    /\ prog = "Day20_Part1" /\ pc = "savings"
    /\ ret' = savings_Part1(maze_walls, end, dist_from_start, dist_to_end)
    /\ pc' = "done"
    /\ UNCHANGED <<prog, searchVars>>
    /\ UNCHANGED towelVars
    /\ UNCHANGED dayVars

Return20P2 ==
    /\ prog = "Day20_Part2" /\ pc = "savings"
    /\ ret' = savings_Part2(maze, maze_walls, end, dist_from_start, dist_to_end)
    /\ pc' = "done"
    /\ UNCHANGED <<prog, searchVars>>
    /\ UNCHANGED towelVars
    /\ UNCHANGED dayVars

NextRace == CallDistFromStart \/ LoopRace \/ CallDistToEnd \/ ReturnDistToEnd
            \/ Return20P1 \/ Return20P2

SpecRace == InitRace /\ [][NextRace]_vars

(***************************************************************************)
(* Properties of the searches.                                             *)
(***************************************************************************)

Adjacent(p1, p2) == Abs(p1[1] - p2[1]) + Abs(p1[2] - p2[2]) = 1

Is18 == prog = "find_min_dist_to_exit"

\* Breadth-first reference for Day18: the cells inside the space that are not among
\* the first num_fallen bytes, and the cells k orthogonal steps onto such cells reach
\* from (0, 0).  The walk begins on (0, 0) whatever has fallen there.
Free18 == {c \in (0..bounds[1]) \X (0..bounds[2]) :
             \A i \in 1..Len(bytes_pos) : i <= num_fallen => bytes_pos[i] # c}

\* The number of steps of a shortest walk from the cells of frontier to c when the
\* cells of seen have been visited after k steps; -1 when no walk leads to c.
RECURSIVE Bfs18(_, _, _, _, _)
Bfs18(seen, frontier, k, c, free) ==
    IF c \in frontier THEN k
    ELSE IF frontier = {} THEN -1
    ELSE Bfs18(seen \cup frontier,
               {n \in free \ (seen \cup frontier) : \E b \in frontier : Adjacent(b, n)},
               k + 1, c, free)

BfsDist18(c) == Bfs18({}, {<<0, 0>>}, 0, c, Free18)

\* The cells some walk leads to.
RECURSIVE Flood18(_, _, _)
Flood18(seen, frontier, free) ==
    IF frontier = {} THEN seen
    ELSE Flood18(seen \cup frontier,
                 {n \in free \ (seen \cup frontier) : \E b \in frontier : Adjacent(b, n)},
                 free)

Reach18 == Flood18({}, {<<0, 0>>}, Free18)

C2_FinalizedDistanceKept ==
    [][\A s \in found' : s \in DOMAIN dist /\ dist'[s] = dist[s]]_vars

\* Two neighbouring cells have both been popped: the one popped later has run the
\* relaxation code on the one popped before it.
C2_Witness ==
    /\ prog \in {"find_min_dist_to_exit", "shortest_dists"}
    /\ \E s \in found : \E t \in found : Adjacent(s, t)

\* C3: whenever the loop condition is tested, every state in queue has a distance and
\* no state in found is in queue.
C3_QueueInvariant ==
    /\ queue \subseteq DOMAIN dist
    /\ found \cap queue = {}

\* A popped cell has a popped neighbour (so the relaxation has met a cell in found)
\* and the queue still holds states.
C3_Witness ==
    /\ prog \in {"find_min_dist_to_exit", "shortest_dists"}
    /\ queue # {}
    /\ \E s \in found : \E t \in found : Adjacent(s, t)

\* C4: find_min_dist_to_exit returns None exactly when the exit cannot be reached,
\* and the dist it ends with (no key is ever taken out of dist) holds no cell that
\* cannot be reached.
C4_NoneIffUnreachable ==
    (Is18 /\ pc = "done") =>
        /\ DOMAIN dist \subseteq Reach18
        /\ ret = RetNone <=> bounds \notin Reach18

\* The exit has not been hit by a byte and yet is cut off.
C4_Witness ==
    /\ Is18 /\ pc = "done"
    /\ bounds \in Free18
    /\ ret = RetNone

\* The final map of the run in which min() breaks ties as CHOOSE does.
CanonicalDist ==
    CASE prog = "find_min_dist_to_exit" ->
           Run18([queue |-> {start_pos}, found |-> {}, dist |-> Single(start_pos, 0)],
                 fallen_bytes(bytes_pos, num_fallen), bounds).dist
      [] prog = "Day16_Part1" ->
           Run16([queue |-> {start}, found |-> {}, dist |-> Single(start, 0)], maze).dist
      [] prog = "Day16_Part2" ->
           Run16P2([queue |-> {start}, found |-> {}, dist |-> Single(start, 0),
                    paths |-> Single(start, << <<start[1]>> >>)], maze).dist
      [] prog = "shortest_dists" ->
           Run20([queue |-> {start}, found |-> {}, dist |-> Single(start, 0)], maze).dist

\* C5: whatever members of minimum distance min() returned on the way, the loop ends
\* with the same distance map: the map of the run with one fixed tie-break.
C5_TieBreakIndependent ==
    (pc = "loop" /\ queue = {}) => dist = CanonicalDist

\* A loop has ended in which two states were popped at the same distance.
C5_Witness ==
    /\ pc = "loop" /\ queue = {}
    /\ \E s \in found : \E t \in found : s # t /\ dist[s] = dist[t]


Is16P2 == prog = "Day16_Part2"

(***************************************************************************)
(* Reference for Day16: the state graph of the search.  A state is a tile   *)
(* with a facing; a move goes one tile in any direction but the reverse of  *)
(* the facing, onto a '.' tile, and costs 1 straight on and 1001 otherwise. *)
(***************************************************************************)
Dirs == {<<0, 1>>, <<1, 0>>, <<0, -1>>, <<-1, 0>>}

IsState16(s) == s = start \/ (s[1] \in Inner /\ At(maze, s[1]) = ".")

States16 == {s \in Inner \X Dirs : IsState16(s)}

IsMove16(u, v) ==
    /\ v[1] = Add(u[1], v[2])
    /\ v[2] # <<-u[2][1], -u[2][2]>>
    /\ At(maze, v[1]) = "."

MoveCost16(u, v) == IF v[2] = u[2] THEN 1 ELSE 1001

\* More than any route without a repeated state costs.
Far16 == 1001 * (4 * MazeRows * MazeCols + 1)

Least(S) == IF S = {} THEN Far16 ELSE MinOf(S)

\* The states a move leads to v from.
Before16(v) == {u \in {<<Add(v[1], <<-v[2][1], -v[2][2]>>), f>> : f \in Dirs} :
                  IsState16(u) /\ IsMove16(u, v)}

\* Bellman-Ford, rounds until nothing changes: the least cost from the start state
\* to every state (Far16 when there is no route), P[v] being the states a move leads
\* to v from ...
RECURSIVE FromStart16(_, _, _)
FromStart16(D, Dn, P) ==
    IF Dn = D /\ P = P THEN D
    ELSE FromStart16(Dn, [v \in DOMAIN P |->
                            Least({Dn[v]} \cup {Dn[u] + MoveCost16(u, v) : u \in P[v]})],
                     P)

\* ... of which the states on a route of least cost to a state of frontier are
\* found backwards, over the moves that cost the whole difference of the costs.
RECURSIVE OnBestRoute16(_, _, _)
OnBestRoute16(D, seen, frontier) ==
    IF frontier \subseteq seen THEN seen
    ELSE OnBestRoute16(D, seen \cup frontier,
             UNION {{u \in Before16(v) : D[u] + MoveCost16(u, v) = D[v]} :
                    v \in frontier \ seen})

BestCost16(D, e, S) == Least({D[y] : y \in {z \in S : z[1] = e}})

\* The states of least cost on the tile e, best being that cost.
BestEnds16(D, e, S, best) == {y \in S : y[1] = e /\ D[y] = best}

\* The tiles of the routes of least cost from the start state to the tile e.
BestTiles16From(D, e, S) ==
    {s[1] : s \in OnBestRoute16(D, {}, BestEnds16(D, e, S, BestCost16(D, e, S)))}

\* The least costs from the start state to the states of S.
LeastCosts16(S) ==
    FromStart16([s \in S |-> Far16], [s \in S |-> IF s = start THEN 0 ELSE Far16],
                [v \in S |-> Before16(v)])

\* The cost of the list of tiles path from its j-th tile on, entered facing f
\* (Far16 when it is no route of the state graph), and the facing it ends with.
RECURSIVE RouteCost16(_, _, _)
RouteCost16(path, j, f) ==
    IF j >= Len(path) THEN 0
    ELSE LET d == <<path[j + 1][1] - path[j][1], path[j + 1][2] - path[j][2]>>
         IN  IF IsMove16(<<path[j], f>>, <<path[j + 1], d>>)
             THEN MoveCost16(<<path[j], f>>, <<path[j + 1], d>>) + RouteCost16(path, j + 1, d)
             ELSE Far16

EndOfRoute16(path) ==
    IF Len(path) = 1 THEN start
    ELSE <<path[Len(path)],
           <<path[Len(path)][1] - path[Len(path) - 1][1],
             path[Len(path)][2] - path[Len(path) - 1][2]>> >>

\* The paths kept for a state are routes from the start state to that state, of the
\* cost kept for it in dist.
PathsAreRoutes16 ==
    \A k \in DOMAIN paths : \A i \in 1..Len(paths[k]) :
        /\ paths[k][i][1] = start[1]
        /\ EndOfRoute16(paths[k][i]) = k
        /\ RouteCost16(paths[k][i], 1, start[2]) = dist[k]

\* r, when a number is returned, is the number n.
ReturnsNumber(r, n) == r.tag = "int" => r.val = n

\* For every tile e that can be the end tile, what Day16_Part2 returns for e is the
\* number of tiles on the routes of least cost to e, D being the least costs.
BestTilesCounted16(D, S) ==
    \A e \in EndTiles(maze) :
        ReturnsNumber(num_pos(dist, paths, e), Cardinality(BestTiles16From(D, e, S)))

\* C6: when the loop has ended, the paths kept for a state are routes from the start
\* state to that state of the cost kept in dist (a shorter route replaces them, an
\* equally short one joins them), and the number Day16_Part2 returns, which is that of
\* num_pos for the end tile, is the number of tiles that lie on a route of least cost
\* from the start state to the end tile, whichever tile the end tile is.
C6_TilesOnBestRoutes ==
    Is16P2 =>
      /\ (pc = "loop" /\ queue = {}) =>
            /\ PathsAreRoutes16
            /\ BestTilesCounted16(LeastCosts16(States16), States16)
      /\ pc = "done" => ret = num_pos(dist, paths, end)

\* Two routes of the same least cost reach the end tile in the same facing (north
\* then east twice, or east, north, east): the end state holds both paths and their
\* five tiles are counted.
C6_Witness ==
    /\ Is16P2 /\ pc = "done"
    /\ start[1] = <<2, 1>> /\ end = <<1, 3>>
    /\ At(maze, <<2, 3>>) = "#"
    /\ Len(paths[<<end, <<0, 1>>>>]) = 2
    /\ ret = Returned(5)

(***************************************************************************)
(* Properties of the towel recursions.                                     *)
(***************************************************************************)

IsTowels == prog \in {"Day19", "is_possible", "num_ways"}

RECURSIVE Decomps(_, _)

\* The sequences of towels of tw whose concatenation is d; the empty sequence is the
\* one sequence whose concatenation is the empty design.
Decomps(d, tw) ==
    IF Len(d) = 0
    THEN {<<>>}
    ELSE UNION { {<<Prefix(d, i)>> \o sq : sq \in Decomps(Suffix(d, i), tw)} :
                 i \in {j \in 1..Len(d) : Prefix(d, j) \in tw} }

\* C7: for a non-empty design and towels that are non-empty, is_possible returns True
\* if and only if some sequence of towels concatenates to the design; with the towels
\* of the example, 'brwrr' gives True and 'ubwu' gives False.
C7_PossibleIffConcatenation ==
    (prog = "is_possible" /\ pc = "done" /\ Len(design) > 0) =>
        /\ ret = Bool(Decomps(design, towels) # {})
        /\ (towels_t = ExampleTowels /\ design = brwrr) => ret = Bool(TRUE)
        /\ (towels_t = ExampleTowels /\ design = ubwu) => ret = Bool(FALSE)

C7_Witness ==
    /\ prog = "is_possible" /\ pc = "done"
    /\ towels_t = ExampleTowels /\ design = brwrr /\ ret = Bool(TRUE)

\* C8: for the empty design is_possible returns True and num_ways returns 1, whatever
\* the towels.
C8_EmptyDesignTrivial ==
    (prog \in {"is_possible", "num_ways"} /\ Len(design) = 0) =>
        ret = (IF prog = "is_possible" THEN Bool(TRUE) ELSE Returned(1))

\* C9: for a non-empty design num_ways returns the number of different sequences of
\* towels whose concatenation is the design, which is 0 when there is none.
C9_NumWaysIsCount ==
    IsTowels =>
        \A k \in 1..Len(calls) :
            Len(calls[k].design) > 0 =>
                calls[k].val = Cardinality(Decomps(calls[k].design, towels))

C9_Witness ==
    /\ prog = "num_ways" /\ pc = "called"
    /\ design = <<"r", "r", "r">> /\ towels = {<<"r">>, <<"r", "r">>}
    /\ ret = Returned(3)
    /\ \E k \in DOMAIN cache : k[1] = <<"r", "r">> /\ cache[k] = 2

C11_CacheKeyedByTowels ==
    (prog = "num_ways" /\ pc = "recalled") =>
        ret = Returned(num_ways(design, towels_t, max_t_len, not_composite, <<>>).val)

\* The cache holds another value for the same design under the towels of the first
\* file.
C11_Witness ==
    /\ prog = "num_ways" /\ pc = "recalled"
    /\ \E k \in DOMAIN cache : k[1] = design /\ k[2] # towels_t /\ cache[k] # ret.val

\* C12: Day16_Part1, Day16_Part2, Day20_Part1 and Day20_Part2 finish with a result and
\* raise no exception, also when the end tile cannot be reached from the start.
C12_UnreachableEndDefined ==
    (prog \in {"Day16_Part1", "Day16_Part2", "Day20_Part1", "Day20_Part2"} /\ pc = "done") =>
        ret.tag \notin {"ValueError", "KeyError"}

(***************************************************************************)
(* The reindeer's moves as the puzzle states them: a step forward costs 1,  *)
(* a rotation of 90 degrees on the spot costs 1000.                         *)
(***************************************************************************)

Open16 == {p \in Inner : At(maze, p) # "#"}

Poses16 == Open16 \X Dirs

\* The poses one move before the pose v: the tile behind it, same facing, and the
\* two facings a quarter turn away on its own tile.
BeforePose16(v) ==
    ({<<Add(v[1], <<-v[2][1], -v[2][2]>>), v[2]>>} \cap Poses16)
    \cup {<<v[1], f>> : f \in {g \in Dirs : g[1] * v[2][1] + g[2] * v[2][2] = 0}}

PoseCost16(u, v) == IF u[1] = v[1] THEN 1000 ELSE 1

RECURSIVE LowestScores16(_, _, _)
LowestScores16(D, Dn, P) ==
    IF Dn = D /\ P = P THEN D
    ELSE LowestScores16(Dn, [v \in DOMAIN P |->
                               Least({Dn[v]} \cup {Dn[u] + PoseCost16(u, v) : u \in P[v]})],
                        P)

\* The lowest score of a sequence of moves from the start pose to the tile e, in any
\* facing; Far16 when there is none.
LowestScore16(e) ==
    LET D == LowestScores16([s \in Poses16 |-> Far16],
                            [s \in Poses16 |-> IF s = start THEN 0 ELSE Far16],
                            [v \in Poses16 |-> BeforePose16(v)])
    IN  Least({D[y] : y \in {z \in Poses16 : z[1] = e}})

\* C13: when the end tile can be reached, Day16_Part1 returns the lowest score of a
\* sequence of steps forward (1 each) and rotations of 90 degrees on the spot (1000
\* each) from the start tile facing east to the end tile in any facing, also when
\* the only way out of the start tile lies to the west.
C13_LowestScore ==
    (prog = "Day16_Part1" /\ pc = "done") =>
        \E n \in {LowestScore16(end)} : n < Far16 => ret = Returned(n)

\* The smallest number of fallen bytes for which find_min_dist_to_exit returns None.
FirstCutOff ==
    MinOf({k \in 0..Len(bytes_pos) : find_min_dist_to_exit(k, bytes_pos, bounds) = RetNone})

\* The exit is reachable with no byte fallen and unreachable with all of them.
CutOffInList ==
    /\ find_min_dist_to_exit(0, bytes_pos, bounds) # RetNone
    /\ find_min_dist_to_exit(Len(bytes_pos), bytes_pos, bounds) = RetNone

\* C14: when the exit is reachable with no byte fallen and unreachable with all of
\* them, Day18_Part2 returns the coordinates of the k-th byte of the list, k being the
\* smallest number of fallen bytes for which find_min_dist_to_exit returns None.
C14_FirstBlockingByte ==
    (prog = "Day18_Part2" /\ pc = "done" /\ CutOffInList) =>
        ret = join_comma(bytes_pos[FirstCutOff])

(***************************************************************************)
(* The distances over track that shortest_dists is to return.              *)
(***************************************************************************)

Cells20 == (0..(Len(maze) - 1)) \X (0..(Len(maze[1]) - 1))

Adjacent20(p) == {Add(p, d) : d \in Dirs} \cap Cells20

IsTrack20(p) == At(maze, p) # "#"

\* Breadth first over track: D maps the track tiles less than n moves away to their
\* distances, frontier are those exactly n moves away.
RECURSIVE TrackDists20(_, _, _)
TrackDists20(D, frontier, n) ==
    IF frontier = {} THEN D
    ELSE LET Dn == D @@ [x \in frontier |-> n]
         IN  TrackDists20(Dn,
                          {q \in UNION {Adjacent20(p) : p \in frontier} :
                              IsTrack20(q) /\ q \notin DOMAIN Dn},
                          n + 1)

\* The map the claim describes, for the search from the tile from.
ExpectedDists20(from) ==
    LET T == TrackDists20(<<>>, {from}, 0)
        W == {w \in Cells20 : ~IsTrack20(w) /\ Adjacent20(w) \cap DOMAIN T # {}}
    IN  [x \in DOMAIN T \cup W |->
            IF x \in DOMAIN T THEN T[x]
            ELSE 1 + MinOf({T[t] : t \in Adjacent20(x) \cap DOMAIN T})]

\* C15: the map shortest_dists returns has as keys exactly the track tiles reachable
\* from the start over track and the walls inside the bounds next to such a tile; a
\* track tile has its shortest distance over track, a wall one more than the least
\* distance of the reachable track tiles next to it; no wall is ever expanded.
C15_TrackAndAdjacentWalls ==
    (prog = "shortest_dists" /\ pc = "done") =>
        /\ dist = ExpectedDists20(start)
        /\ \A p \in found : IsTrack20(p)

\* The end is walled off: some track tile is no key, a wall is.
C15_Witness ==
    /\ prog = "shortest_dists" /\ pc = "done"
    /\ end \notin DOMAIN dist
    /\ \E w \in DOMAIN dist : ~IsTrack20(w) /\ dist[w] = 1

\* d is the map of the distances over track from the tile from: the only map on
\* track tiles that holds 0 for from, holds every track tile next to one of its keys,
\* and holds for every other key one more than the least value next to it.
IsTrackDists20(d, from) ==
    /\ from \in DOMAIN d /\ d[from] = 0
    /\ \A x \in DOMAIN d :
          /\ IsTrack20(x)
          /\ \A y \in Adjacent20(x) : IsTrack20(y) => y \in DOMAIN d
          /\ x # from =>
                /\ \E y \in Adjacent20(x) \cap DOMAIN d : d[x] = d[y] + 1
                /\ \A y \in Adjacent20(x) \cap DOMAIN d : d[x] <= d[y] + 1

\* The map dm without its walls.
OnTrack20(dm) == [x \in {y \in DOMAIN dm : IsTrack20(y)} |-> dm[x]]

\* The cheats that save at least MinSaving, dS and dE being the distances over track
\* from the start and to the end: the ordered pairs of distinct track tiles at most
\* MaxCheatDist apart by which going to the first, jumping to the second and going on
\* to the end is that much shorter than the way over track.
GoodCheats(dS, dE) ==
    {p \in (DOMAIN dS) \X (DOMAIN dS) :
        /\ p[1] # p[2]
        /\ man_dist(p[1], p[2]) <= MaxCheatDist
        /\ dS[end] - (dS[p[1]] + man_dist(p[1], p[2]) + dE[p[2]]) >= MinSaving}

AllTrackConnected(dS) == \A t \in Cells20 : IsTrack20(t) => t \in DOMAIN dS

CheatsCounted(dS, dE) ==
    /\ IsTrackDists20(dS, start)
    /\ IsTrackDists20(dE, end)
    /\ AllTrackConnected(dS) => ret = Returned(Cardinality(GoodCheats(dS, dE)))

\* C16: when all track tiles are connected, Day20_Part2 returns the number of cheats,
\* as ordered pairs (start, end) of distinct track tiles at Manhattan distance at most
\* 20, by which the way from S over the cheat to E is at least 100 shorter than the
\* way over track (the distances being those over track from S and to E); going
\* through the pairs unordered and taking the better direction counts each of them
\* once.
C16_CheatsAsOrderedPairs ==
    (prog = "Day20_Part2" /\ pc = "done") =>
        CheatsCounted(OnTrack20(dist_from_start), OnTrack20(dist_to_end))

\* Cheats are counted, and a jump longer than MaxCheatDist would save MinSaving too.
C16_Witness ==
    /\ prog = "Day20_Part2" /\ pc = "done"
    /\ ret.tag = "int" /\ ret.val > 0
    /\ \E a \in DOMAIN dist_from_start : \E b \in DOMAIN dist_to_end :
          /\ IsTrack20(a) /\ IsTrack20(b)
          /\ man_dist(a, b) > MaxCheatDist
          /\ dist_from_start[end] - (dist_from_start[a] + man_dist(a, b) + dist_to_end[b])
                >= MinSaving

(***************************************************************************)
(* Day 9: the disk, block by block.                                         *)
(***************************************************************************)

\* A block of no file, and one of the file number id
Free == [used |-> FALSE, id |-> 0]

FileBlock(id) == [used |-> TRUE, id |-> id]

\* The blocks of the disk that the digits of fs from the n-th on describe (n from 0):
\* the number of the file, or Free.
RECURSIVE Disk9(_, _)
Disk9(fs, n) ==
    IF n >= Len(fs) THEN <<>>
    ELSE [j \in 1..int(fs[n + 1]) |-> IF n % 2 = 0 THEN FileBlock(n \div 2) ELSE Free] \o Disk9(fs, n + 1)

\* Move the last file block to the leftmost free block, until no free block lies
\* before a file block.
RECURSIVE Compact9(_)
Compact9(d) ==
    LET free == {j \in 1..Len(d) : d[j] = Free}
        used == {j \in 1..Len(d) : d[j] # Free}
    IN  IF free = {} \/ used = {} \/ MinOf(free) > Max(used) THEN d
        ELSE Compact9([d EXCEPT ![MinOf(free)] = d[Max(used)], ![Max(used)] = Free])

\* The sum of position times file number over the file blocks; the leftmost block is
\* in position 0.
RECURSIVE Checksum9(_, _)
Checksum9(d, j) ==
    IF j > Len(d) THEN 0
    ELSE (IF d[j] = Free THEN 0 ELSE (j - 1) * d[j].id) + Checksum9(d, j + 1)

\* C17: Day9_Part1 returns the checksum of the disk compacted by moving file blocks
\* one at a time from the end into the leftmost free block; no file block is counted
\* both from the front and from the back.
C17_CompactedChecksum ==
    (prog = "Day9_Part1" /\ pc = "done") =>
        ret = Returned(Checksum9(Compact9(Disk9(files, 0)), 1))

(***************************************************************************)
(* Day 6: the walk of the guard.                                            *)
(***************************************************************************)

\* The guard at p facing f leaves the map ls: it steps forward, or turns right when
\* an obstacle is directly ahead, and has not left when it comes to be where it was
\* before, facing as before (seen).
RECURSIVE Leaves6(_, _, _, _)
Leaves6(ls, p, f, seen) ==
    IF <<p, f>> \in seen THEN FALSE
    ELSE IF ~InBounds6(ls, Add(p, f)) THEN TRUE
    ELSE IF At(ls, Add(p, f)) # "#" THEN Leaves6(ls, Add(p, f), f, seen \cup {<<p, f>>})
    ELSE Leaves6(ls, p, TURNS[f], seen \cup {<<p, f>>})

\* C18: every call of does_loop returns, also for a guard with obstacles on all four
\* sides; it returns True exactly when the guard never leaves the map, having come
\* back to a position with a facing recorded for it, and False exactly when the guard
\* steps off the map.
C18_DoesLoopDecides ==
    /\ [](pc = "does_loop" => <>(pc # "does_loop"))
    /\ []((prog = "does_loop" /\ pc = "done") =>
            ret = Bool(~Leaves6(extra_obs, pos_dl, facing_dl, {})))

\* The cells, empty in the map ls, where one more obstacle keeps the guard in the
\* map for ever: every cell is tried and the walk is made again from the start.
LoopCells6(ls) ==
    {c \in (0..(Len(ls) - 1)) \X (0..(Len(ls[1]) - 1)) :
        /\ At(ls, c) = "."
        /\ ~Leaves6(SetAt(ls, c, "#"), start_pos6(ls), start_facing6(ls), {})}

\* What Day6_Part2 has returned is the number of those cells, and the cells it found
\* by testing only the cell ahead of the guard are those cells.
CountsLoopCells6 ==
    (prog = "Day6_Part2" /\ pc = "done") =>
        /\ extra_obs_pos = LoopCells6(lines)
        /\ ret = Returned(Cardinality(LoopCells6(lines)))

\* C19: on a map the guard leaves, Day6_Part2 returns, and what it returns is the
\* number of cells, empty in the map and not the cell of the guard, where one more
\* obstacle keeps the guard in the map for ever; testing an obstacle only in the cell
\* ahead of the guard, the first time it is about to be entered, finds the same cells
\* as trying every cell from the start.
C19_ObstaclesThatLoop ==
    /\ []((prog = "Day6_Part2"
            /\ Leaves6(lines, start_pos6(lines), start_facing6(lines), {}))
           => <>(pc = "done"))
    /\ []CountsLoopCells6

(***************************************************************************)
(* Day 15: what a move of the robot does, as the puzzle states it.          *)
(***************************************************************************)

\* The boxes, each as the set of the tiles it lies on.
Boxes15 ==
    IF prog = "Day15_Part1" THEN {{b} : b \in boxes}
    ELSE {{left[i], right[i]} : i \in DOMAIN left}

\* The tiles of a box one step on in the direction d.
Shift(box, d) == {Add(t, d) : t \in box}

\* The pushed group: with the boxes G, every other box of B that a box of G would
\* move into, and so on.
RECURSIVE PushedGroup(_, _, _)
PushedGroup(G, B, d) ==
    LET more == {b \in B \ G : \E g \in G : Shift(g, d) \cap b # {}} IN
    IF more = {} THEN G ELSE PushedGroup(G \cup more, B, d)

\* The robot rb and the boxes B after a move in the direction d between the walls W.
AfterMove(rb, B, W, d) ==
    LET G == PushedGroup({b \in B : Add(rb, d) \in b}, B, d) IN
    IF Add(rb, d) \in W \/ \E g \in G : Shift(g, d) \cap W # {}
    THEN [robot |-> rb, boxes |-> B]
    ELSE [robot |-> Add(rb, d), boxes |-> (B \ G) \cup {Shift(g, d) : g \in G}]

\* C20: a move that would push the robot or a box of the pushed group into a wall
\* changes neither the robot nor any box; every other move takes the robot and
\* exactly the boxes of the pushed group one tile on in its direction and leaves
\* every other box where it is. No box is lost or made.
C20_PushOrNothing ==
    [][(prog \in {"Day15_Part1", "Day15_Part2"} /\ pc = "moves" /\ moves # <<>>) =>
          LET after == AfterMove(robot, Boxes15, walls15, MOVES[Head(moves)]) IN
          /\ robot' = after.robot
          /\ Boxes15' = after.boxes
          /\ prog = "Day15_Part2" =>
                (Len(left') = Len(left) /\ Len(right') = Len(left))]_vars

\* Day15_Part2 has pushed three wide boxes at once: the robot stands where a half of
\* a box was, and every half that moved is one tile on.
C20_Witness ==
    /\ prog = "Day15_Part2"
    /\ ~hit_wall
    /\ Cardinality(moving_boxes) >= 6
    /\ robot \in moving_boxes
    /\ \E m \in DOMAIN MOVES :
         \A b \in moving_boxes :
            Contains(left, Add(b, MOVES[m])) \/ Contains(right, Add(b, MOVES[m]))

\* C21: after every move of Day15_Part2, and before the first, right[i] is the tile
\* immediately right of left[i] for every index i, there are as many boxes as
\* get_input found, and no half of a box lies on a wall, on the tile of the robot or
\* on a tile of another box.
C21_WideBoxesIntact ==
    (prog = "Day15_Part2") =>
        /\ Len(left) = Cardinality(boxes)
        /\ Len(right) = Len(left)
        /\ \A i \in DOMAIN left :
              /\ right[i] = <<left[i][1], left[i][2] + 1>>
              /\ {left[i], right[i]} \cap walls15 = {}
              /\ robot \notin {left[i], right[i]}
              /\ \A j \in DOMAIN left :
                    i # j => {left[i], right[i]} \cap {left[j], right[j]} = {}

\* Day15_Part2 has pushed a box sideways, so that it lies at an odd column, and other
\* boxes are about.
C21_Witness ==
    /\ prog = "Day15_Part2"
    /\ ~hit_wall
    /\ moving_boxes # {}
    /\ Len(left) >= 2
    /\ \E i \in DOMAIN left : left[i][2] % 2 = 1
    /\ moves # <<>>

(***************************************************************************)
(* Day 19: the shortcuts of num_ways and is_possible.                       *)
(***************************************************************************)

\* C22: every call of num_ways made with not_composite as Day19_Part2 computes it has
\* returned what num_ways returns for the same design and towels with an empty
\* not_composite (and a cache of its own): the shortcut changes no result.
C22_ShortcutChangesNothing ==
    (prog = "num_ways") =>
        \A i \in DOMAIN calls :
            calls[i].val = num_ways(calls[i].design, towels_t, max_t_len, <<>>, <<>>).val

\* num_ways has taken the shortcut for what is left of a design after a first towel,
\* with towels of which some can be made of others, and has found several ways.
C22_Witness ==
    /\ prog = "num_ways"
    /\ pc = "called"
    /\ Len(not_composite) < Len(towels_t)
    /\ ret.val >= 2
    /\ \E i \in 1..(Len(design) - 1) :
          Prefix(design, i) \in towels /\ Suffix(design, i) \in Range(not_composite)

\* C23: the loops of is_possible and num_ways test no prefix longer than max_t_len
\* against the towels, and with max_t_len the length of the longest towel or more,
\* up to testing every prefix of the design, each function returns the same value.
C23_PrefixBound ==
    /\ (prog = "is_possible") =>
          /\ \A p \in TestedPrefixes(design, towels, towels, max_t_len, 0) :
                Len(p) <= max_t_len
          /\ \A m \in max_t_len..(Len(design) + 1) :
                ret = Bool(is_possible(design, towels, m))
    /\ (prog = "num_ways") =>
          /\ \A p \in TestedPrefixes(design, Range(not_composite), towels, max_t_len, 1) :
                Len(p) <= max_t_len
          /\ \A m \in max_t_len..(Len(design) + 1) :
                ret.val = num_ways(design, towels_t, m, not_composite, <<>>).val

\* is_possible has made a design that is longer than the longest towel, with its
\* loop cut short of the whole design.
C23_Witness ==
    /\ prog = "is_possible"
    /\ pc = "done"
    /\ Len(design) > max_t_len
    /\ ret = Bool(TRUE)
    /\ TestedPrefixes(design, towels, towels, max_t_len, 0) # {}
    /\ Cardinality(towels) >= 2

(***************************************************************************)
(* The searches: what they explore.                                         *)
(***************************************************************************)

\* The state a search starts from.
StartState24 == IF prog = "find_min_dist_to_exit" THEN start_pos ELSE start

\* The neighbor rule of each search. Day18: a step in one of the four directions to
\* a position of the memory space on which no byte has fallen. Day16: a step forward,
\* or a quarter turn and a step, onto a tile marked '.'. Day20: a step in one of the
\* four directions to a tile of the maze that is not a wall.
Neighbours24(s) ==
    IF prog = "find_min_dist_to_exit"
    THEN {p \in {Add(s, DIRECTIONS[i]) : i \in DOMAIN DIRECTIONS} :
            /\ p \in (0..bounds[1]) \X (0..bounds[2])
            /\ \A i \in 1..Min2(num_fallen, Len(bytes_pos)) : bytes_pos[i] # p}
    ELSE IF prog \in {"Day16_Part1", "Day16_Part2"}
    THEN {n \in {<<Add(s[1], d), d>> : d \in {s[2], TURN_CW[s[2]], TURN_ACW[s[2]]}} :
            At(maze, n[1]) = "."}
    ELSE {p \in {Add(s, DIRECTIONS20[i]) : i \in DOMAIN DIRECTIONS20} :
            /\ p \in (0..(Len(maze) - 1)) \X (0..(Len(maze[1]) - 1))
            /\ At(maze, p) # "#"}

\* The states that can be reached from those of S through the neighbor rule.
RECURSIVE Reachable24(_)
Reachable24(S) ==
    LET more == UNION {Neighbours24(s) : s \in S} \ S IN
    IF more = {} THEN S ELSE Reachable24(S \cup more)

\* C24: every search loop comes to an empty queue, and when the loop ends on it,
\* found is exactly the set of states that can be reached from the start state
\* through the neighbor rule.
C24_FullSpaceExplored ==
    /\ <>(queue = {})
    /\ []((pc = "loop" /\ queue = {}) => found = Reachable24({StartState24}))

\* The search of Day16_Part1 has ended after exploring several states, and there is
\* an open tile that it has not explored with every facing.
C24_Witness ==
    /\ prog = "Day16_Part1"
    /\ pc = "loop"
    /\ queue = {}
    /\ Cardinality(found) >= 3
    /\ \E p \in Inner : \E f \in DOMAIN TURN_CW :
          At(maze, p) = "." /\ <<p, f>> \notin found

(***************************************************************************)
(* Day7: ops_are_valid and ops_are_valid_fast.                             *)
(***************************************************************************)
\* The largest one-digit number of an equation, the most numbers of an equation and
\* the largest of the test values tried beside the values the expressions have.
MaxNum == 2
MaxNums == 3
MaxAnswer == 12

ZeroDivisionError == [tag |-> "ZeroDivisionError", val |-> 0]

\* int(s) of a str of decimal digits, leading zeros and all.
RECURSIVE int_str(_)
int_str(s) ==
    IF Len(s) = 1 THEN int(s[1])
    ELSE 10 * int_str(SubSeq(s, 1, Len(s) - 1)) + int(s[Len(s)])

\* s.endswith(t)
endswith(s, t) == Len(t) <= Len(s) /\ SubSeq(s, Len(s) - Len(t) + 1, Len(s)) = t

\* One operator applied: 0 is +, 1 is * and 2 is ||.
Apply7(output, op, num) ==
    IF op = 0 THEN output + num
    ELSE IF op = 1 THEN output * num
    ELSE int_str(str(output) \o str(num))

\* The loop of ops_are_valid from its pass n (counted from 1) on, with the output so
\* far; ns[n + 1] is nums[n+1] of the pass, the lists here being counted from 1.
RECURSIVE ops_are_valid_from(_, _, _, _, _)
ops_are_valid_from(ns, os, ans, n, output) ==
    IF n > Len(os) THEN Bool(output = ans)
    ELSE IF output > ans THEN Bool(FALSE)
    ELSE ops_are_valid_from(ns, os, ans, n + 1, Apply7(output, os[n], ns[n + 1]))

ops_are_valid(ns, os, ans) == ops_are_valid_from(ns, os, ans, 1, ns[1])

\* The loop of ops_are_valid_fast from its pass n on, going down, with next_output.
\* The true division leaves a float, which is exact below 2^53.
RECURSIVE ops_are_valid_fast_from(_, _, _, _, _)
ops_are_valid_fast_from(ns, os, ans, n, next_output) ==
    IF n = 0 THEN Bool(next_output = ns[1])
    ELSE IF os[n] = 0
         THEN IF next_output - ns[n + 1] >= 0
              THEN ops_are_valid_fast_from(ns, os, ans, n - 1, next_output - ns[n + 1])
              ELSE Bool(FALSE)
    ELSE IF os[n] = 1
         THEN IF ns[n + 1] = 0 THEN ZeroDivisionError
              ELSE IF next_output % ns[n + 1] # 0 THEN Bool(FALSE)
              ELSE ops_are_valid_fast_from(ns, os, ans, n - 1, next_output \div ns[n + 1])
    ELSE IF /\ endswith(str(next_output), str(ns[n + 1]))
            /\ Len(str(next_output)) > Len(str(ns[n + 1]))
         THEN ops_are_valid_fast_from(ns, os, ans, n - 1,
                  int_str(SubSeq(str(next_output), 1,
                                 Len(str(next_output)) - Len(str(ns[n + 1])))))
         ELSE Bool(FALSE)

ops_are_valid_fast(ns, os, ans) == ops_are_valid_fast_from(ns, os, ans, Len(os), ans)

\* The value of the expression, from left to right.
RECURSIVE Evaluate_from(_, _, _, _)
Evaluate_from(ns, os, n, output) ==
    IF n > Len(os) THEN output
    ELSE Evaluate_from(ns, os, n + 1, Apply7(output, os[n], ns[n + 1]))

Evaluate(ns, os) == Evaluate_from(ns, os, 1, ns[1])

\* The numbers of the equations: of one digit, and one of two digits.
Operands == (0..MaxNum) \cup {10}

\* An equation, a sequence of operators as product(range(3), repeat=len(nums)-1)
\* gives them, and a test value: a small one, or the value of one of the expressions.
InitEquations ==
    /\ prog = "Day7"
    /\ pc = "equation"
    /\ ret = Pending
    /\ nums \in SeqUpTo(Operands, MaxNums) \ {<<>>}
    /\ ops \in [1..(Len(nums) - 1) -> 0..2]
    /\ answer \in (0..MaxAnswer) \cup {Evaluate(nums, o) : o \in [1..(Len(nums) - 1) -> 0..2]}
    /\ NoSearch /\ NoTowels
    /\ NoRace /\ NoBisect /\ NoDisk /\ NoGuard /\ NoWarehouse

CallOpsAreValid ==
    /\ pc = "equation"
    /\ prog' = "ops_are_valid"
    /\ pc' = "done"
    /\ ret' = ops_are_valid(nums, ops, answer)
    /\ UNCHANGED <<searchVars, towelVars, dayVars>>

CallOpsAreValidFast ==
    /\ pc = "equation"
    /\ prog' = "ops_are_valid_fast"
    /\ pc' = "done"
    /\ ret' = ops_are_valid_fast(nums, ops, answer)
    /\ UNCHANGED <<searchVars, towelVars, dayVars>>

NextEquations == CallOpsAreValid \/ CallOpsAreValidFast

SpecEquations == InitEquations /\ [][NextEquations]_vars

\* C25: ops_are_valid and ops_are_valid_fast return the same boolean for every
\* answer, every tuple of numbers that are not negative and every sequence of
\* operators: each returns True exactly when the expression, evaluated from left to
\* right, gives the answer, and neither raises.
C25_SameBoolean ==
    (pc = "done" /\ prog \in {"ops_are_valid", "ops_are_valid_fast"}) =>
        /\ ret = Bool(Evaluate(nums, ops) = answer)
        /\ ops_are_valid(nums, ops, answer) = ops_are_valid_fast(nums, ops, answer)

(***************************************************************************)
(* Day18: find_min_dist_to_exit as more bytes fall.                        *)
(***************************************************************************)
\* A space of 5 rows and 2 columns whose bytes close the straight ways one after the
\* other: the way round the first two is longer, and the third closes it.
DetourBounds == <<4, 1>>
DetourBytes == << <<1, 0>>, <<3, 1>>, <<2, 1>> >>

\* find_min_dist_to_exit called on a list of bytes with any number of them fallen,
\* also one more than the list has (the slice then takes the whole list).
InitFallen ==
    /\ prog = "find_min_dist_to_exit"
    /\ pc = "loop"
    /\ ret = Pending
    /\ \/ /\ bounds \in (0..MaxCoord) \X (0..MaxCoord)
          /\ bytes_pos \in SeqUpTo(Cells18(bounds), MaxBytes)
       \/ /\ bounds = DetourBounds
          /\ bytes_pos = DetourBytes
    /\ num_fallen \in 0..(Len(bytes_pos) + 1)
    /\ maze = None /\ start = None /\ end = None /\ paths = None
    /\ queue = {start_pos}
    /\ found = {}
    /\ dist = Single(start_pos, 0)
    /\ NoTowels /\ NoOtherDays

NextFallen == Loop18 \/ Exit18

SpecFallen == InitFallen /\ [][NextFallen]_vars

\* C26: for every list of bytes, when find_min_dist_to_exit returns None with m bytes
\* fallen it returns None with every m' >= m of them fallen, and the distance it
\* returns never decreases as m grows.
C26_MonotoneInFallen ==
    (prog = "find_min_dist_to_exit" /\ pc = "done") =>
        \A m \in num_fallen..(Len(bytes_pos) + 1) :
            \E r \in {find_min_dist_to_exit(m, bytes_pos, bounds)} :
                /\ ret = RetNone => r = RetNone
                /\ (ret # RetNone /\ r # RetNone) => ret.val <= r.val

\* A returned distance that a later m makes longer, and a still later one None.
C26_Witness ==
    /\ prog = "find_min_dist_to_exit" /\ pc = "done"
    /\ ret # RetNone
    /\ \E m \in (num_fallen + 1)..Len(bytes_pos) :
          /\ find_min_dist_to_exit(m, bytes_pos, bounds) # RetNone
          /\ find_min_dist_to_exit(m, bytes_pos, bounds).val > ret.val
          /\ find_min_dist_to_exit(m + 1, bytes_pos, bounds) = RetNone

\* C27: for every design that is not empty and every set of towels, num_ways returns
\* a value greater than 0 if and only if is_possible returns True: the designs that
\* Day19_Part1 counts are those that add a term other than 0 in Day19_Part2.
C27_CountedIffPossible ==
    /\ (prog = "is_possible" /\ pc = "done" /\ design # <<>>) =>
          (ret = Bool(TRUE) <=>
              num_ways(design, towels_t, max_t_len, not_composite, <<>>).val > 0)
    /\ prog = "num_ways" =>
          \A i \in DOMAIN calls :
              calls[i].design # <<>> =>
                  (calls[i].val > 0 <=> is_possible(calls[i].design, towels, max_t_len))

\* A design made of two towels or more has been counted, and it is not a towel.
C27_Witness ==
    /\ prog = "num_ways" /\ pc = "done"
    /\ design \notin towels
    /\ Len(calls) = 2 /\ calls[2].val >= 2
    /\ is_possible(design, towels, max_t_len)

====
